---- MODULE Spec2Model ----
(***************************************************************************)
(* Marketplace REST API over PostgreSQL (products, users, orders, reviews, *)
(* free-to-play games proxy).  The store is the four tables created by     *)
(* initializeDatabase; every route handler is one action that runs its     *)
(* statements in order and leaves its HTTP response in resp.               *)
(*                                                                         *)
(* Text is modelled as sequences of one-character strings wherever the     *)
(* code depends on its characters (path parameters, query parameters,      *)
(* DECIMAL columns as returned by the driver).  Money is counted in cents, *)
(* request prices in thousandths, scores in hundredths.                    *)
(***************************************************************************)
EXTENDS Integers, Sequences, FiniteSets, TLC

\* ------------------------------------------------------------------ bounds
MaxProducts == 2
MaxUsers == 2
MaxOrders == 1
MaxReviews == 2
MaxGames == 3
MaxInflight == 2

\* ------------------------------------------------------- text and numbers
Digits == <<"0", "1", "2", "3", "4", "5", "6", "7", "8", "9">>

IsDigit(c) == \E i \in 1..10 : Digits[i] = c

DigitVal(c) == (CHOOSE i \in 1..10 : Digits[i] = c) - 1

RECURSIVE NatToStr(_)
NatToStr(n) ==
  IF n < 10 THEN <<Digits[n + 1]>>
  ELSE NatToStr(n \div 10) \o <<Digits[(n % 10) + 1]>>

RECURSIVE StrToNat(_)
StrToNat(s) ==
  IF s = <<>> THEN 0
  ELSE 10 * StrToNat(SubSeq(s, 1, Len(s) - 1)) + DigitVal(s[Len(s)])

AllDigits(s) == s # <<>> /\ \A i \in 1..Len(s) : IsDigit(s[i])

\* A JavaScript number that is not a number.
NaN == [nan |-> TRUE, n |-> 0]

Num(n) == [nan |-> FALSE, n |-> n]

\* The text the driver hands back for a DECIMAL(10,2) column: "10.00".
PgNumericOut(cents) ==
  NatToStr(cents \div 100) \o <<".">>
    \o <<Digits[((cents % 100) \div 10) + 1], Digits[(cents % 10) + 1]>>

\* The server's text-to-integer conversion of a bound parameter compared
\* with an INTEGER column: digits give the number, anything else is the
\* error "invalid input syntax for type integer".
PgInt4Ok(s) == AllDigits(s)

PgInt4In(s) == StrToNat(s)

\* JavaScript parseInt: optional sign, then the leading digits; NaN when
\* there is no leading digit (also for an absent parameter, <<>>).
RECURSIVE LeadingDigits(_)
LeadingDigits(s) ==
  IF s = <<>> \/ ~IsDigit(s[1]) THEN <<>>
  ELSE <<s[1]>> \o LeadingDigits(Tail(s))

parseInt(s) ==
  LET neg == s # <<>> /\ s[1] = "-"
      body == IF s # <<>> /\ s[1] \in {"-", "+"} THEN Tail(s) ELSE s
      ds == LeadingDigits(body)
  IN IF ds = <<>> THEN NaN
     ELSE Num(IF neg THEN 0 - StrToNat(ds) ELSE StrToNat(ds))

\* JavaScript  x || d  on numbers: NaN and 0 are falsy.
OrDefault(x, d) == IF x.nan \/ x.n = 0 THEN d ELSE x.n

\* ------------------------------------------------------------------ state
VARIABLES
  phase,       \* "starting" | "listening" | "exited" | "crashed"
  setupDone,   \* number of schema statements of initializeDatabase executed
  products,    \* id -> row of table products
  users,       \* id -> row of table users
  orders,      \* id -> row of table orders
  reviews,     \* id -> row of table reviews
  seqs,        \* last value handed out by each SERIAL sequence
  resp,        \* the response to the last request
  pending      \* the requests whose handler is between two of its awaits

vars == <<phase, setupDone, products, users, orders, reviews, seqs, resp, pending>>

store == <<products, users, orders, reviews, seqs>>

\* What is recorded of a request: its :id path parameter (<<>> when the
\* route has none), and for reviews the product concerned.
NoId == [id |-> <<>>]

ById(id) == [id |-> id]

\* An update request: its :id and its body.
UpdateReq(id, body) == [id |-> id, body |-> body]

\* A create request: whether its body passed the schema.
CreateReq(valid) == [id |-> <<>>, valid |-> valid]

\* A list request: its page and limit query parameters, its search filters
\* and the outcome of the external catalog call ("none" when the handler
\* makes none).
ListReq(pageQ, limitQ, q, external) ==
  [id |-> <<>>, page |-> pageQ, limit |-> limitQ, q |-> q, external |-> external]

NoResp == [op |-> "none", status |-> 0, req |-> NoId]

\* The five statements of initializeDatabase, in order.
SetupStatements ==
  <<"create products", "create users", "create orders", "create reviews",
    "alter products add reviews_ids, total_score">>

Init ==
  /\ phase = "starting"
  /\ setupDone = 0
  /\ products = <<>>
  /\ users = <<>>
  /\ orders = <<>>
  /\ reviews = <<>>
  /\ seqs = [products |-> 0, users |-> 0, orders |-> 0, reviews |-> 0]
  /\ resp = NoResp
  /\ pending = <<>>

\* --------------------------------------------------------------- helpers
Min(a, b) == IF a < b THEN a ELSE b

Max(a, b) == IF a > b THEN a ELSE b

\* The ids of S in ascending order (ORDER BY id).
RECURSIVE Ascending(_)
Ascending(S) ==
  IF S = {} THEN <<>>
  ELSE LET m == CHOOSE x \in S : \A y \in S : x <= y
       IN <<m>> \o Ascending(S \ {m})

\* The ids of S in descending order.  Rows get created_at from
\* CURRENT_TIMESTAMP and id from a SERIAL in the same INSERT, so
\* ORDER BY created_at DESC lists the newest id first.
RECURSIVE Descending(_)
Descending(S) ==
  IF S = {} THEN <<>>
  ELSE LET m == CHOOSE x \in S : \A y \in S : x >= y
       IN <<m>> \o Descending(S \ {m})

Range(s) == {s[i] : i \in 1..Len(s)}

Remove(table, ids) == [i \in (DOMAIN table) \ ids |-> table[i]]

Insert(table, id, row) == [i \in (DOMAIN table) \cup {id} |-> IF i = id THEN row ELSE table[i]]

\* Math.ceil(a / b) for a >= 0 and b # 0.
Ceil(a, b) ==
  IF b > 0 THEN (a + b - 1) \div b
  ELSE 0 - (a \div (0 - b))

\* ------------------------------------------------------------- responses
\* status 0: the request got no response from the handler.
Response(op, status, error, body, req) ==
  [op |-> op, status |-> status, json |-> TRUE, error |-> error, body |-> body,
   req |-> req]

ZodFailure(op, req) == Response(op, 400, "Donnees invalides", "details", req)

ServerError(op, req) == Response(op, 500, "Erreur du serveur", "none", req)

NotFound(op, error, req) == Response(op, 404, error, "none", req)

\* What becomes of a request whose async handler rejects outside any
\* try/catch.  The handler itself never answers; depending on the versions
\* of the framework and of the runtime the request is left hanging, the
\* process terminates on the unhandled rejection, or the framework's own
\* error handler answers 500 with a non-JSON page.
UnhandledOutcomes == {"hang", "crash", "framework"}

Unhandled(op, outcome, req) ==
  [op |-> op, status |-> IF outcome = "framework" THEN 500 ELSE 0,
   json |-> FALSE, error |-> "unhandled rejection", body |-> "none", req |-> req]

\* ------------------------------------------------------------ pagination
\* const page = parseInt(req.query.page) || 1
PageOf(q) == OrDefault(parseInt(q), 1)

\* const limit = parseInt(req.query.limit) || 10
LimitOf(q) == OrDefault(parseInt(q), 10)

OffsetOf_PageTimesLimit(page, limit) == page * limit

OffsetOf(page, limit) == (page - 1) * limit

\* SELECT ... LIMIT limit OFFSET offset: the server rejects a negative
\* LIMIT or OFFSET.
LimitOffsetOk(limit, offset) == limit >= 0 /\ offset >= 0

LimitOffset(rows, limit, offset) ==
  SubSeq(rows, offset + 1, Min(Len(rows), offset + limit))

\* Array.prototype.slice(start, end)
JsSlice(arr, start, end) ==
  LET n == Len(arr)
      from == IF start < 0 THEN Max(n + start, 0) ELSE Min(start, n)
      to == IF end < 0 THEN Max(n + end, 0) ELSE Min(end, n)
  IN SubSeq(arr, from + 1, to)

Pagination(page, limit, total, totalIsText) ==
  LET totalPages == Ceil(total, limit)
  IN [page |-> page, limit |-> limit, total |-> total, totalIsText |-> totalIsText,
      totalPages |-> totalPages, hasNext |-> page < totalPages, hasPrev |-> page > 1]

\* ------------------------------------------------------------- startup
\* One schema statement of initializeDatabase succeeds.
SetupStatement ==
  /\ phase = "starting"
  /\ setupDone < Len(SetupStatements)
  /\ setupDone' = setupDone + 1
  /\ UNCHANGED <<phase, products, users, orders, reviews, seqs, resp, pending>>

\* A schema statement throws: the catch block logs and calls process.exit(1).
SetupFailure ==
  /\ phase = "starting"
  /\ setupDone < Len(SetupStatements)
  /\ phase' = "exited"
  /\ UNCHANGED <<setupDone, products, users, orders, reviews, seqs, resp, pending>>

\* app.listen that does not wait for initializeDatabase.
Listen_Early ==
  /\ phase = "starting"
  /\ phase' = "listening"
  /\ UNCHANGED <<setupDone, products, users, orders, reviews, seqs, resp, pending>>

\* startServer: after initializeDatabase has returned, app.listen.
Listen ==
  /\ phase = "starting"
  /\ setupDone = Len(SetupStatements)
  /\ phase' = "listening"
  /\ UNCHANGED <<setupDone, products, users, orders, reviews, seqs, resp, pending>>

\* -------------------------------------------------------------- schemas
\* Request values.  Prices are in thousandths so that a positive price
\* below half a cent can be sent; "" is the empty string.
NameInputs == {"", "lamp"}

PriceInputs == {0, 4, 10000, 20000}

\* ProductSchema: name and about non-empty, price a positive number.
ProductSchema(body) == body.name # "" /\ body.about # "" /\ body.price > 0

\* A number bound to a DECIMAL(10,2) column is rounded to two decimals,
\* halves away from zero (thousandths in, cents out).
ToDecimal2(thousandths) == (thousandths + 5) \div 10

\* CHECK (price > 0), evaluated on the rounded value.
PriceCheck(cents) == cents > 0

\* --------------------------------------------------------------- products
ReviewsOfProduct(pid) == {r \in DOMAIN reviews : reviews[r].product_id = pid}

ReviewsOfUser(uid) == {r \in DOMAIN reviews : reviews[r].user_id = uid}

OrdersOfUser(uid) == {o \in DOMAIN orders : orders[o].user_id = uid}

\* orders.user_id REFERENCES users(id) ON DELETE CASCADE
CascadeUserOrders_Keep(uid) == orders

CascadeUserOrders(uid) == Remove(orders, OrdersOfUser(uid))

\* reviews.user_id REFERENCES users(id) ON DELETE CASCADE
CascadeUserReviews(uid) == Remove(reviews, ReviewsOfUser(uid))

\* A reviews table whose product reference would not cascade.
CascadeProductReviews_Keep(pid) == reviews

\* reviews.product_id REFERENCES products(id) ON DELETE CASCADE
CascadeProductReviews(pid) == Remove(reviews, ReviewsOfProduct(pid))

\* SELECT r.*, u.username, u.email FROM reviews r JOIN users u ...
ReviewWithUser(r) ==
  [id |-> r, user_id |-> reviews[r].user_id, product_id |-> reviews[r].product_id,
   score |-> reviews[r].score, content |-> reviews[r].content,
   username |-> users[reviews[r].user_id].username,
   email |-> users[reviews[r].user_id].email]

\* getProductDetails: the product row with its reviews, newest first.
getProductDetails(pid) ==
  LET ids == Descending(ReviewsOfProduct(pid))
  IN [id |-> pid, product |-> products[pid],
      reviews |-> [i \in 1..Len(ids) |-> ReviewWithUser(ids[i])]]

\* POST /products: no try/catch around the INSERT; answers with res.send,
\* so a created product is reported with status 200.
PostProduct(body, outcome) ==
  /\ phase = "listening"
  /\ ProductSchema(body) => seqs.products < MaxProducts
  /\ IF ~ProductSchema(body)
     THEN /\ resp' = [op |-> "postProduct", status |-> 400, json |-> TRUE,
                      error |-> "", body |-> "safeParse result", req |-> CreateReq(FALSE)]
          /\ UNCHANGED <<phase, products, seqs>>
     ELSE LET id == seqs.products + 1
              price == ToDecimal2(body.price)
          IN /\ seqs' = [seqs EXCEPT !.products = id]
             /\ IF PriceCheck(price)
                THEN /\ products' = Insert(products, id,
                           [name |-> body.name, about |-> body.about, price |-> price,
                            total_score |-> 0, reviews_ids |-> <<>>])
                     /\ resp' = Response("postProduct", 200, "", [id |-> id, price |-> price], CreateReq(TRUE))
                     /\ UNCHANGED phase
                ELSE /\ resp' = Unhandled("postProduct", outcome, CreateReq(TRUE))
                     /\ phase' = IF outcome = "crash" THEN "crashed" ELSE phase
                     /\ UNCHANGED products
  /\ UNCHANGED <<setupDone, users, orders, reviews, pending>>

\* GET /products/:id
GetProduct(id) ==
  /\ phase = "listening"
  /\ resp' = IF ~PgInt4Ok(id) THEN ServerError("getProduct", ById(id))
             ELSE IF PgInt4In(id) \notin DOMAIN products
                  THEN NotFound("getProduct", "Produit non trouve", ById(id))
                  ELSE Response("getProduct", 200, "", getProductDetails(PgInt4In(id)), ById(id))
  /\ UNCHANGED <<phase, setupDone, products, users, orders, reviews, seqs, pending>>

\* DELETE /products/:id; reviews.product_id is declared ON DELETE CASCADE,
\* orders.product_ids is a plain INTEGER[] and is left alone.
DeleteProduct(id) ==
  /\ phase = "listening"
  /\ IF ~PgInt4Ok(id)
     THEN /\ resp' = ServerError("deleteProduct", ById(id))
          /\ UNCHANGED <<products, reviews>>
     ELSE IF PgInt4In(id) \notin DOMAIN products
          THEN /\ resp' = NotFound("deleteProduct", "Produit non trouve", ById(id))
               /\ UNCHANGED <<products, reviews>>
          ELSE /\ products' = Remove(products, {PgInt4In(id)})
               /\ reviews' = CascadeProductReviews(PgInt4In(id))
               /\ resp' = Response("deleteProduct", 200, "",
                                   [id |-> PgInt4In(id), product |-> products[PgInt4In(id)]], ById(id))
  /\ UNCHANGED <<phase, setupDone, users, orders, seqs, pending>>

\* ------------------------------------------------------------------ users
UsernameInputs == {"al", "ann", "bob"}

\* An e-mail address as the text around its "@".
EmailInputs == {<<"nope">>, <<"ann", "@", "x.io">>, <<"bob", "@", "x.io">>}

PasswordInputs == {"12345", "secret1"}

IsEmail(e) == Len(e) = 3 /\ e[1] # "" /\ e[2] = "@" /\ e[3] # ""

\* UserSchema: username of 3 characters or more, e-mail shape, password of
\* 6 characters or more.
UserSchema(body) ==
  Len(body.username) >= 3 /\ IsEmail(body.email) /\ Len(body.password) >= 6

\* crypto.createHash('sha512').update(password).digest('hex')
hashPassword(password) == "sha512:" \o password

\* SELECT * FROM users: the row with its password_hash.
PublicUser_WholeRow(uid) ==
  [id |-> uid, username |-> users[uid].username, email |-> users[uid].email,
   password_hash |-> users[uid].password_hash]

\* The columns every users query returns: id, username, email (and the two
\* timestamps), never password_hash.
PublicUser(uid) == [id |-> uid, username |-> users[uid].username, email |-> users[uid].email]

\* UNIQUE (username), UNIQUE (email) of table users, excluding row self.
UsersUnique(username, email, self) ==
  \A u \in (DOMAIN users) \ {self} :
    users[u].username # username /\ users[u].email # email

\* SELECT id FROM users WHERE username = ${username}
ExistingUser_ByUsername(username, email) ==
  {u \in DOMAIN users : users[u].username = username}

\* SELECT id FROM users WHERE username = ${username} OR email = ${email}
ExistingUser(username, email) ==
  {u \in DOMAIN users : users[u].username = username \/ users[u].email = email}

\* The request of a POST /users, as recorded with its response.
PostUserReq(body) ==
  [id |-> <<>>, valid |-> UserSchema(body), username |-> body.username, email |-> body.email]

\* POST /users
PostUser(body) ==
  /\ phase = "listening"
  /\ IF ~UserSchema(body)
     THEN /\ resp' = ZodFailure("postUser", PostUserReq(body))
          /\ UNCHANGED <<users, seqs>>
     ELSE IF ExistingUser(body.username, body.email) # {}
          THEN /\ resp' = Response("postUser", 409, "Un utilisateur existe deja", "none", PostUserReq(body))
               /\ UNCHANGED <<users, seqs>>
          ELSE LET id == seqs.users + 1
               IN /\ seqs.users < MaxUsers
                  /\ seqs' = [seqs EXCEPT !.users = id]
                  /\ IF UsersUnique(body.username, body.email, 0)
                     THEN /\ users' = Insert(users, id,
                                [username |-> body.username, email |-> body.email,
                                 password_hash |-> hashPassword(body.password)])
                          /\ resp' = Response("postUser", 201, "",
                                [id |-> id, username |-> body.username, email |-> body.email],
                                PostUserReq(body))
                     ELSE /\ resp' = ServerError("postUser", PostUserReq(body))
                          /\ UNCHANGED users
  /\ UNCHANGED <<phase, setupDone, products, orders, reviews, pending>>

\* GET /users/:id
GetUser(id) ==
  /\ phase = "listening"
  /\ resp' = IF ~PgInt4Ok(id) THEN ServerError("getUser", ById(id))
             ELSE IF PgInt4In(id) \notin DOMAIN users
                  THEN NotFound("getUser", "Utilisateur non trouve", ById(id))
                  ELSE Response("getUser", 200, "", PublicUser(PgInt4In(id)), ById(id))
  /\ UNCHANGED <<phase, setupDone, products, users, orders, reviews, seqs, pending>>

\* The fields a user update body may carry.
UserFields == {"username", "email", "password"}

\* UserUpdateSchema and UserPartialUpdateSchema: the same three fields, each
\* optional, each checked as in UserSchema when present.
UserUpdateSchema(body) ==
  /\ ("username" \in body.has => Len(body.username) >= 3)
  /\ ("email" \in body.has => IsEmail(body.email))
  /\ ("password" \in body.has => Len(body.password) >= 6)

\* A PATCH schema that would demand the three fields.
UserPartialUpdateSchema_AllRequired(body) ==
  /\ body.has = UserFields
  /\ Len(body.username) >= 3
  /\ IsEmail(body.email)
  /\ Len(body.password) >= 6

UserPartialUpdateSchema(body) ==
  /\ ("username" \in body.has => Len(body.username) >= 3)
  /\ ("email" \in body.has => IsEmail(body.email))
  /\ ("password" \in body.has => Len(body.password) >= 6)

\* An UPDATE that would set password_hash whatever the body carries.
UpdatedUser_Rehash(row, body) ==
  [username |-> IF "username" \in body.has THEN body.username ELSE row.username,
   email |-> IF "email" \in body.has THEN body.email ELSE row.email,
   password_hash |-> hashPassword(body.password)]

\* The row after the UPDATE statement the handler picks for the fields
\* present.
UpdatedUser(row, body) ==
  [username |-> IF "username" \in body.has THEN body.username ELSE row.username,
   email |-> IF "email" \in body.has THEN body.email ELSE row.email,
   password_hash |-> IF "password" \in body.has THEN hashPassword(body.password)
                     ELSE row.password_hash]

\* PUT and PATCH /users/:id share one body.  The body is validated before
\* the id reaches the store.  The conflict query binds both username and
\* email: when exactly one of them is present the other is undefined, the
\* driver refuses the parameter and the catch answers 500.
UpdateUser(op, schemaOk, id, body) ==
  /\ phase = "listening"
  /\ IF ~schemaOk
     THEN /\ resp' = ZodFailure(op, UpdateReq(id, body))
          /\ UNCHANGED users
     ELSE IF ~PgInt4Ok(id)
          THEN /\ resp' = ServerError(op, UpdateReq(id, body))
               /\ UNCHANGED users
     ELSE IF PgInt4In(id) \notin DOMAIN users
          THEN /\ resp' = NotFound(op, "Utilisateur non trouve", UpdateReq(id, body))
               /\ UNCHANGED users
     ELSE IF body.has \cap {"username", "email"} # {}
             /\ ~({"username", "email"} \subseteq body.has)
          THEN /\ resp' = ServerError(op, UpdateReq(id, body))
               /\ UNCHANGED users
     ELSE IF {"username", "email"} \subseteq body.has
             /\ \E u \in (DOMAIN users) \ {PgInt4In(id)} :
                   users[u].username = body.username \/ users[u].email = body.email
          THEN /\ resp' = Response(op, 409, "Un utilisateur existe deja", "none", UpdateReq(id, body))
               /\ UNCHANGED users
     ELSE IF body.has = {}
          THEN /\ resp' = Response(op, 400, "Aucune donnee a mettre a jour", "none", UpdateReq(id, body))
               /\ UNCHANGED users
     ELSE LET uid == PgInt4In(id)
              row == UpdatedUser(users[uid], body)
          IN IF UsersUnique(row.username, row.email, uid)
             THEN /\ users' = [users EXCEPT ![uid] = row]
                  /\ resp' = Response(op, 200, "",
                        [id |-> uid, username |-> row.username, email |-> row.email],
                        UpdateReq(id, body))
             ELSE /\ resp' = ServerError(op, UpdateReq(id, body))
                  /\ UNCHANGED users
  /\ UNCHANGED <<phase, setupDone, products, orders, reviews, seqs, pending>>

\* PUT /users/:id
PutUser(id, body) == UpdateUser("putUser", UserUpdateSchema(body), id, body)

\* PATCH /users/:id
PatchUser(id, body) == UpdateUser("patchUser", UserPartialUpdateSchema(body), id, body)

\* DELETE /users/:id; the store deletes the user's orders and reviews with
\* the row.  No product row is touched.
DeleteUser(id) ==
  /\ phase = "listening"
  /\ IF ~PgInt4Ok(id)
     THEN /\ resp' = ServerError("deleteUser", ById(id))
          /\ UNCHANGED <<users, orders, reviews>>
     ELSE IF PgInt4In(id) \notin DOMAIN users
          THEN /\ resp' = NotFound("deleteUser", "Utilisateur non trouve", ById(id))
               /\ UNCHANGED <<users, orders, reviews>>
          ELSE /\ users' = Remove(users, {PgInt4In(id)})
               /\ orders' = CascadeUserOrders(PgInt4In(id))
               /\ reviews' = CascadeUserReviews(PgInt4In(id))
               /\ resp' = Response("deleteUser", 200, "", PublicUser(PgInt4In(id)), ById(id))
  /\ UNCHANGED <<phase, setupDone, products, seqs, pending>>

\* ------------------------------------------------- JavaScript arithmetic
\* A JavaScript value that is a number (in cents) or a string (its
\* characters).
JsNumber(n) == [t |-> "number", nan |-> FALSE, n |-> n, s |-> <<>>]

JsNaN == [t |-> "number", nan |-> TRUE, n |-> 0, s |-> <<>>]

JsString(s) == [t |-> "string", nan |-> FALSE, n |-> 0, s |-> s]

\* Number-to-string of a non-negative amount: 0 -> "0", 10.5 -> "10.5".
NumberToString(v) ==
  IF v.nan THEN <<"N", "a", "N">>
  ELSE IF v.n % 100 = 0 THEN NatToStr(v.n \div 100)
  ELSE IF v.n % 10 = 0
       THEN NatToStr(v.n \div 100) \o <<".", Digits[((v.n % 100) \div 10) + 1]>>
  ELSE PgNumericOut(v.n)

JsToString(v) == IF v.t = "string" THEN v.s ELSE NumberToString(v)

\* String-to-number: digits with at most one decimal point, else NaN.  The
\* texts that reach it carry only zeros after the second decimal.
StringToNumber(s) ==
  LET dots == {i \in 1..Len(s) : s[i] = "."}
  IN IF s = <<>> THEN JsNumber(0)
     ELSE IF dots = {}
          THEN IF AllDigits(s) THEN JsNumber(100 * StrToNat(s)) ELSE JsNaN
     ELSE IF Cardinality(dots) > 1 THEN JsNaN
     ELSE LET d == CHOOSE i \in dots : TRUE
              whole == SubSeq(s, 1, d - 1)
              frac == SubSeq(s, d + 1, Len(s))
              cents == SubSeq(frac \o <<"0", "0">>, 1, 2)
          IN IF (whole = <<>> /\ frac = <<>>)
                \/ (whole # <<>> /\ ~AllDigits(whole))
                \/ (frac # <<>> /\ ~AllDigits(frac))
             THEN JsNaN
             ELSE JsNumber(100 * StrToNat(whole) + StrToNat(cents))

JsToNumber(v) == IF v.t = "number" THEN v ELSE StringToNumber(v.s)

\* The + operator: numeric addition of two numbers, else concatenation of
\* the two operands as strings.
JsPlus(a, b) ==
  IF a.t = "number" /\ b.t = "number"
  THEN IF a.nan \/ b.nan THEN JsNaN ELSE JsNumber(a.n + b.n)
  ELSE JsString(JsToString(a) \o JsToString(b))

\* Math.round((subtotal * 1.2) * 100) / 100 on an amount in cents.
RoundVAT(subtotal) ==
  LET x == JsToNumber(subtotal)
  IN IF x.nan THEN NaN ELSE Num((12 * x.n + 5) \div 10)

\* SELECT * FROM products WHERE id = ANY(productIds): the rows as the
\* driver returns them, id as a number and price (DECIMAL) as text.
FetchedProducts(productIds) ==
  {[id |-> p, price |-> JsString(PgNumericOut(products[p].price))] :
     p \in Range(productIds) \cap DOMAIN products}

\* productIds.reduce((sum, productId) => sum + (product ? product.price : 0), 0)
RECURSIVE Subtotal(_, _, _)
Subtotal(productIds, fetched, sum) ==
  IF productIds = <<>> THEN sum
  ELSE LET found == {p \in fetched : p.id = Head(productIds)}
           term == IF found = {} THEN JsNumber(0) ELSE (CHOOSE p \in found : TRUE).price
       IN Subtotal(Tail(productIds), fetched, JsPlus(sum, term))

calculateTotalWithVAT(productIds, fetched) ==
  RoundVAT(Subtotal(productIds, fetched, JsNumber(0)))

\* ----------------------------------------------------------------- orders
MaxListLen == 2

UserIdInputs == 0..2

ProductIdInputs == 1..2

ProductIdLists == UNION {[1..n -> ProductIdInputs] : n \in 0..MaxListLen}

\* The fields of an update body that are present.
OrderFields == {"userId", "productIds", "payment"}

PositiveInt(n) == n > 0

\* OrderSchema: userId a positive integer, productIds a non-empty array of
\* positive integers.
OrderSchema(body) ==
  /\ PositiveInt(body.userId)
  /\ Len(body.productIds) >= 1
  /\ \A i \in 1..Len(body.productIds) : PositiveInt(body.productIds[i])

\* OrderUpdateSchema: the same constraints, every field optional.
OrderUpdateSchema(body) ==
  /\ "userId" \in body.has => PositiveInt(body.userId)
  /\ "productIds" \in body.has =>
       /\ Len(body.productIds) >= 1
       /\ \A i \in 1..Len(body.productIds) : PositiveInt(body.productIds[i])

\* CHECK (total >= 0) on a DECIMAL(10,2): the NaN of the numeric type sorts
\* above every number.
TotalCheck(total) == total.nan \/ total.n >= 0

\* getOrderDetails: the order with its user (without password_hash) and
\* the product rows its list still matches.
getOrderDetails(id, order) ==
  [id |-> id, user_id |-> order.user_id, product_ids |-> order.product_ids,
   total |-> order.total, payment |-> order.payment,
   user |-> {PublicUser(u) : u \in {order.user_id} \cap DOMAIN users},
   products |-> Range(order.product_ids) \cap DOMAIN products]

\* A check that would pass as soon as one product of the list is stored.
AllProductsExist_Some(productIds) == FetchedProducts(productIds) # {}

\* products.length !== productIds.length refuses the list.
AllProductsExist(productIds) ==
  Cardinality(FetchedProducts(productIds)) = Len(productIds)

\* What is recorded of a POST /orders request.
PostOrderReq(body) ==
  [id |-> <<>>, valid |-> OrderSchema(body), userId |-> body.userId,
   productIds |-> body.productIds]

\* POST /orders
PostOrder(body) ==
  /\ phase = "listening"
  /\ IF ~OrderSchema(body)
     THEN /\ resp' = ZodFailure("postOrder", PostOrderReq(body))
          /\ UNCHANGED <<orders, seqs>>
     ELSE IF body.userId \notin DOMAIN users
          THEN /\ resp' = NotFound("postOrder", "Utilisateur non trouve", PostOrderReq(body))
               /\ UNCHANGED <<orders, seqs>>
     ELSE IF ~AllProductsExist(body.productIds)
          THEN /\ resp' = NotFound("postOrder", "Un ou plusieurs produits n'existent pas", PostOrderReq(body))
               /\ UNCHANGED <<orders, seqs>>
     ELSE LET id == seqs.orders + 1
              total == calculateTotalWithVAT(body.productIds, FetchedProducts(body.productIds))
              row == [user_id |-> body.userId, product_ids |-> body.productIds,
                      total |-> total, payment |-> FALSE]
          IN /\ seqs.orders < MaxOrders
             /\ seqs' = [seqs EXCEPT !.orders = id]
             /\ IF TotalCheck(total)
                THEN /\ orders' = Insert(orders, id, row)
                     /\ resp' = Response("postOrder", 201, "", getOrderDetails(id, row), PostOrderReq(body))
                ELSE /\ resp' = ServerError("postOrder", PostOrderReq(body))
                     /\ UNCHANGED orders
  /\ UNCHANGED <<phase, setupDone, products, users, reviews, pending>>

\* GET /orders/:id
GetOrderResponse(id) ==
  IF ~PgInt4Ok(id) THEN ServerError("getOrder", ById(id))
  ELSE IF PgInt4In(id) \notin DOMAIN orders
       THEN NotFound("getOrder", "Commande non trouvee", ById(id))
       ELSE Response("getOrder", 200, "",
                     getOrderDetails(PgInt4In(id), orders[PgInt4In(id)]), ById(id))

GetOrder(id) ==
  /\ phase = "listening"
  /\ resp' = GetOrderResponse(id)
  /\ UNCHANGED <<phase, setupDone, products, users, orders, reviews, seqs, pending>>

\* The conditional UPDATE of an order: the columns of the fields present;
\* product_ids and total are set together.
UpdatedOrder(order, body) ==
  [user_id |-> IF "userId" \in body.has THEN body.userId ELSE order.user_id,
   product_ids |-> IF "productIds" \in body.has THEN body.productIds ELSE order.product_ids,
   total |-> IF "productIds" \in body.has
             THEN calculateTotalWithVAT(body.productIds, FetchedProducts(body.productIds))
             ELSE order.total,
   payment |-> IF "payment" \in body.has THEN body.payment ELSE order.payment]

\* PUT /orders/:id and PATCH /orders/:id run the same statements.  With no
\* field present no UPDATE runs, updatedOrder stays undefined and
\* getOrderDetails throws on it inside the try block.
UpdateOrder(op, id, body) ==
  /\ phase = "listening"
  /\ IF ~OrderUpdateSchema(body)
     THEN /\ resp' = ZodFailure(op, UpdateReq(id, body))
          /\ UNCHANGED orders
     ELSE IF ~PgInt4Ok(id)
          THEN /\ resp' = ServerError(op, UpdateReq(id, body))
               /\ UNCHANGED orders
     ELSE IF PgInt4In(id) \notin DOMAIN orders
          THEN /\ resp' = NotFound(op, "Commande non trouvee", UpdateReq(id, body))
               /\ UNCHANGED orders
     ELSE IF "userId" \in body.has /\ body.userId \notin DOMAIN users
          THEN /\ resp' = NotFound(op, "Utilisateur non trouve", UpdateReq(id, body))
               /\ UNCHANGED orders
     ELSE IF /\ "productIds" \in body.has
             /\ ~AllProductsExist(body.productIds)
          THEN /\ resp' = NotFound(op, "Un ou plusieurs produits n'existent pas", UpdateReq(id, body))
               /\ UNCHANGED orders
     ELSE IF body.has = {}
          THEN /\ resp' = ServerError(op, UpdateReq(id, body))
               /\ UNCHANGED orders
     ELSE LET oid == PgInt4In(id)
              row == UpdatedOrder(orders[oid], body)
          IN IF TotalCheck(row.total)
             THEN /\ orders' = Insert(orders, oid, row)
                  /\ resp' = Response(op, 200, "", getOrderDetails(oid, row), UpdateReq(id, body))
             ELSE /\ resp' = ServerError(op, UpdateReq(id, body))
                  /\ UNCHANGED orders
  /\ UNCHANGED <<phase, setupDone, products, users, reviews, seqs, pending>>

PutOrder(id, body) == UpdateOrder("putOrder", id, body)

PatchOrder(id, body) == UpdateOrder("patchOrder", id, body)

\* DELETE /orders/:id
DeleteOrder(id) ==
  /\ phase = "listening"
  /\ IF ~PgInt4Ok(id)
     THEN /\ resp' = ServerError("deleteOrder", ById(id))
          /\ UNCHANGED orders
     ELSE IF PgInt4In(id) \notin DOMAIN orders
          THEN /\ resp' = NotFound("deleteOrder", "Commande non trouvee", ById(id))
               /\ UNCHANGED orders
          ELSE /\ orders' = Remove(orders, {PgInt4In(id)})
               /\ resp' = Response("deleteOrder", 200, "",
                                   getOrderDetails(PgInt4In(id), orders[PgInt4In(id)]), ById(id))
  /\ UNCHANGED <<phase, setupDone, products, users, reviews, seqs, pending>>

\* ---------------------------------------------------------------- reviews
ScoreInputs == {0, 4, 5}

ContentInputs == {"", "fine"}

ReviewFields == {"score", "content"}

\* ReviewSchema: positive integer ids, score an integer in 1..5, content of
\* 1 to 1000 characters.
ScoreOk(score) == score >= 1 /\ score <= 5

ContentOk(content) == Len(content) >= 1 /\ Len(content) <= 1000

ReviewSchema(body) ==
  /\ PositiveInt(body.userId)
  /\ PositiveInt(body.productId)
  /\ ScoreOk(body.score)
  /\ ContentOk(body.content)

\* ReviewUpdateSchema: score and content, both optional.
ReviewUpdateSchema(body) ==
  /\ "score" \in body.has => ScoreOk(body.score)
  /\ "content" \in body.has => ContentOk(body.content)

RECURSIVE SumScores(_, _)
SumScores(revs, ids) ==
  IF ids = {} THEN 0
  ELSE LET r == CHOOSE x \in ids : TRUE
       IN revs[r].score + SumScores(revs, ids \ {r})

\* avg_score ? Math.round(avg_score * 100) / 100 : 0, in hundredths, over
\* the reviews of table revs that belong to product pid.
AvgScore(revs, pid) ==
  LET ids == {r \in DOMAIN revs : revs[r].product_id = pid}
      n == Cardinality(ids)
  IN IF n = 0 THEN 0
     ELSE (200 * SumScores(revs, ids) + n) \div (2 * n)

\* SELECT id FROM reviews WHERE product_id = pid ORDER BY id
ReviewIds(revs, pid) == Ascending({r \in DOMAIN revs : revs[r].product_id = pid})

updateProductScore_ScoreOnly(prods, revs, pid) ==
  [p \in DOMAIN prods |->
     IF p = pid THEN [prods[p] EXCEPT !.total_score = AvgScore(revs, pid)] ELSE prods[p]]

\* updateProductScore: recompute total_score and reviews_ids of product pid
\* from table revs and write them with one UPDATE (no row, no change).
updateProductScore(prods, revs, pid) ==
  [p \in DOMAIN prods |->
     IF p = pid
     THEN [prods[p] EXCEPT !.total_score = AvgScore(revs, pid),
                           !.reviews_ids = ReviewIds(revs, pid)]
     ELSE prods[p]]

\* SELECT r.*, u.username, u.email, p.name as product_name ... WHERE r.id = id
ReviewDetails(revs, id) ==
  {[id |-> r, user_id |-> revs[r].user_id, product_id |-> revs[r].product_id,
    score |-> revs[r].score, content |-> revs[r].content,
    username |-> users[revs[r].user_id].username,
    email |-> users[revs[r].user_id].email,
    product_name |-> products[revs[r].product_id].name] :
     r \in {x \in {id} \cap DOMAIN revs :
              revs[x].user_id \in DOMAIN users /\ revs[x].product_id \in DOMAIN products}}

\* A reviews table without its UNIQUE constraint.
ReviewsUnique_Absent(userId, productId) == TRUE

\* UNIQUE (user_id, product_id) of table reviews.
ReviewsUnique(userId, productId) ==
  \A r \in DOMAIN reviews :
    ~(reviews[r].user_id = userId /\ reviews[r].product_id = productId)

\* SELECT id FROM reviews WHERE user_id = userId AND product_id = productId
ExistingReview_Never(userId, productId) == {}

ExistingReview(userId, productId) ==
  {r \in DOMAIN reviews :
     reviews[r].user_id = userId /\ reviews[r].product_id = productId}

\* The request of a POST /reviews, as recorded with its response.
PostReviewReq(body) ==
  [id |-> <<>>, user_id |-> body.userId, product_id |-> body.productId,
   valid |-> ReviewSchema(body)]

\* POST /reviews
PostReview(body) ==
  /\ phase = "listening"
  /\ IF ~ReviewSchema(body)
     THEN /\ resp' = ZodFailure("postReview", PostReviewReq(body))
          /\ UNCHANGED <<products, reviews, seqs>>
     ELSE IF body.userId \notin DOMAIN users
          THEN /\ resp' = NotFound("postReview", "Utilisateur non trouve", PostReviewReq(body))
               /\ UNCHANGED <<products, reviews, seqs>>
     ELSE IF body.productId \notin DOMAIN products
          THEN /\ resp' = NotFound("postReview", "Produit non trouve", PostReviewReq(body))
               /\ UNCHANGED <<products, reviews, seqs>>
     ELSE IF ExistingReview(body.userId, body.productId) # {}
          THEN /\ resp' = Response("postReview", 409,
                                   "Vous avez deja laisse un avis pour ce produit", "none",
                                   PostReviewReq(body))
               /\ UNCHANGED <<products, reviews, seqs>>
     ELSE LET id == seqs.reviews + 1
              row == [user_id |-> body.userId, product_id |-> body.productId,
                      score |-> body.score, content |-> body.content]
              revs == Insert(reviews, id, row)
          IN /\ seqs.reviews < MaxReviews
             /\ seqs' = [seqs EXCEPT !.reviews = id]
             /\ IF ReviewsUnique(body.userId, body.productId)
                THEN /\ reviews' = revs
                     /\ products' = updateProductScore(products, revs, body.productId)
                     /\ resp' = Response("postReview", 201, "", ReviewDetails(revs, id),
                                         PostReviewReq(body))
                ELSE /\ resp' = ServerError("postReview", PostReviewReq(body))
                     /\ UNCHANGED <<products, reviews>>
  /\ UNCHANGED <<phase, setupDone, users, orders, pending>>

\* GET /reviews/:id
GetReviewResponse(id) ==
  IF ~PgInt4Ok(id) THEN ServerError("getReview", ById(id))
  ELSE IF ReviewDetails(reviews, PgInt4In(id)) = {}
       THEN NotFound("getReview", "Avis non trouve", ById(id))
       ELSE Response("getReview", 200, "", ReviewDetails(reviews, PgInt4In(id)), ById(id))

GetReview(id) ==
  /\ phase = "listening"
  /\ resp' = GetReviewResponse(id)
  /\ UNCHANGED <<phase, setupDone, products, users, orders, reviews, seqs, pending>>

\* The conditional UPDATE of a review: score and/or content.
UpdatedReview(review, body) ==
  [review EXCEPT
     !.score = IF "score" \in body.has THEN body.score ELSE @,
     !.content = IF "content" \in body.has THEN body.content ELSE @]

\* PUT /reviews/:id and PATCH /reviews/:id run the same statements.
UpdateReview(op, id, body) ==
  /\ phase = "listening"
  /\ IF ~ReviewUpdateSchema(body)
     THEN /\ resp' = ZodFailure(op, UpdateReq(id, body))
          /\ UNCHANGED <<products, reviews>>
     ELSE IF ~PgInt4Ok(id)
          THEN /\ resp' = ServerError(op, UpdateReq(id, body))
               /\ UNCHANGED <<products, reviews>>
     ELSE IF PgInt4In(id) \notin DOMAIN reviews
          THEN /\ resp' = NotFound(op, "Avis non trouve", UpdateReq(id, body))
               /\ UNCHANGED <<products, reviews>>
     ELSE IF body.has = {}
          THEN /\ resp' = Response(op, 400, "Aucune donnee a mettre a jour", "none", UpdateReq(id, body))
               /\ UNCHANGED <<products, reviews>>
     ELSE LET rid == PgInt4In(id)
              row == UpdatedReview(reviews[rid], body)
              revs == Insert(reviews, rid, row)
          IN /\ reviews' = revs
             /\ products' = updateProductScore(products, revs, row.product_id)
             /\ resp' = Response(op, 200, "", ReviewDetails(revs, rid),
                                 [id |-> id, body |-> body, product_id |-> row.product_id])
  /\ UNCHANGED <<phase, setupDone, users, orders, seqs, pending>>

PutReview(id, body) == UpdateReview("putReview", id, body)

PatchReview(id, body) == UpdateReview("patchReview", id, body)

\* DELETE /reviews/:id: the details are selected after the DELETE, so the
\* response carries no review.
DeleteReview(id) ==
  /\ phase = "listening"
  /\ IF ~PgInt4Ok(id)
     THEN /\ resp' = ServerError("deleteReview", ById(id))
          /\ UNCHANGED <<products, reviews>>
     ELSE IF PgInt4In(id) \notin DOMAIN reviews
          THEN /\ resp' = NotFound("deleteReview", "Avis non trouve", ById(id))
               /\ UNCHANGED <<products, reviews>>
          ELSE LET rid == PgInt4In(id)
                   revs == Remove(reviews, {rid})
               IN /\ reviews' = revs
                  /\ products' = updateProductScore(products, revs, reviews[rid].product_id)
                  /\ resp' = Response("deleteReview", 200, "", ReviewDetails(revs, rid),
                                      [id |-> id, product_id |-> reviews[rid].product_id])
  /\ UNCHANGED <<phase, setupDone, users, orders, seqs, pending>>

\* ------------------------------------------------------ games endpoints
\* JavaScript white space at either end of a string is dropped by the
\* string-to-number conversion.
RECURSIVE TrimStart(_)
TrimStart(s) == IF s # <<>> /\ Head(s) = " " THEN TrimStart(Tail(s)) ELSE s

RECURSIVE TrimEnd(_)
TrimEnd(s) ==
  IF s # <<>> /\ s[Len(s)] = " " THEN TrimEnd(SubSeq(s, 1, Len(s) - 1)) ELSE s

DropSign(s) == IF s # <<>> /\ Head(s) \in {"+", "-"} THEN Tail(s) ELSE s

DropChars(s, n) == SubSeq(s, n + 1, Len(s))

\* StrUnsignedDecimalLiteral: Infinity, or digits with an optional fraction
\* and an optional exponent, at least one digit in the mantissa.
IsUnsignedDecimal(s) ==
  LET int == LeadingDigits(s)
      r1 == DropChars(s, Len(int))
      hasDot == r1 # <<>> /\ Head(r1) = "."
      r2 == IF hasDot THEN Tail(r1) ELSE r1
      frac == IF hasDot THEN LeadingDigits(r2) ELSE <<>>
      r3 == DropChars(r2, Len(frac))
      hasExp == r3 # <<>> /\ Head(r3) \in {"e", "E"}
      exp == IF hasExp THEN DropSign(Tail(r3)) ELSE <<>>
  IN \/ s = <<"I", "n", "f", "i", "n", "i", "t", "y">>
     \/ /\ Len(int) + Len(frac) >= 1
        /\ IF hasExp THEN AllDigits(exp) ELSE r3 = <<>>

IsHexDigit(c) == IsDigit(c) \/ c \in {"a", "b", "c", "d", "e", "f", "A", "B", "C", "D", "E", "F"}

\* 0x, 0o and 0b literals carry no sign.
IsRadixLiteral(s) ==
  /\ Len(s) >= 3
  /\ s[1] = "0"
  /\ \/ s[2] \in {"x", "X"} /\ \A i \in 3..Len(s) : IsHexDigit(s[i])
     \/ s[2] \in {"o", "O"} /\ \A i \in 3..Len(s) : s[i] \in {"0", "1", "2", "3", "4", "5", "6", "7"}
     \/ s[2] \in {"b", "B"} /\ \A i \in 3..Len(s) : s[i] \in {"0", "1"}

\* A test that would accept digits only.
isNaN_DigitsOnly(s) == ~AllDigits(s)

\* isNaN(string): the string converts to NaN.  The empty string and white
\* space convert to 0.
isNaN(s) ==
  LET t == TrimEnd(TrimStart(s))
  IN ~(\/ t = <<>>
       \/ IsUnsignedDecimal(DropSign(t))
       \/ IsRadixLiteral(t))

\* What fetch gives for a call of the catalog: a response with a status
\* (ok for 200..299), or a rejection for a network failure (status 0).
Upstream(status) == [status |-> status, ok |-> status \in 200..299]

UpstreamOutcomes == {Upstream(st) : st \in {0, 200, 404, 500, 503}}

NoUpstream == [status |-> 0 - 1, ok |-> FALSE]

\* error.message of what the handler catches.
UpstreamErrorText(up) ==
  IF up.status = 0 THEN <<"fetch failed">>
  ELSE <<"Erreur API FreeToGame: ", up.status>>

GameFilterInputs == {"", "pc"}

GameTagInputs == {"", "3d"}

\* What is recorded of a games request: its :id, and the outcome of the call
\* of the catalog it made (NoUpstream when it made none).
GameReq(id, up) == [id |-> id, upstream |-> up]

\* GET /f2p-games: one call of the catalog (the filter endpoint when a tag
\* is given); n is the number of games a successful call returns.
ListGames(platform, tag, up, n) ==
  /\ phase = "listening"
  /\ up.ok \/ n = 0
  /\ resp' =
       IF up.ok
       THEN Response("listGames", 200, "",
              [total |-> n,
               endpoint |-> IF tag # "" THEN "filter" ELSE "games",
               filters |-> [platform |-> IF platform # "" THEN platform ELSE "all",
                            category |-> "all", sortBy |-> "relevance",
                            tag |-> tag]],
              GameReq(<<>>, up))
       ELSE Response("listGames", 500, "Erreur lors de la recuperation des jeux",
              [details |-> UpstreamErrorText(up)], GameReq(<<>>, up))
  /\ UNCHANGED <<phase, setupDone, products, users, orders, reviews, seqs, pending>>

\* GET /f2p-games/:id: the id is tested with isNaN before the catalog is
\* called; a 404 of the catalog is answered 404.
GetGame(id, up) ==
  /\ phase = "listening"
  /\ (up = NoUpstream) = isNaN(id)
  /\ resp' =
       IF isNaN(id)
       THEN Response("getGame", 400, "ID de jeu invalide", "none", GameReq(id, up))
       ELSE IF up.ok
            THEN Response("getGame", 200, "", [game |-> id], GameReq(id, up))
       ELSE IF up.status = 404
            THEN Response("getGame", 404, "Jeu non trouve", "none", GameReq(id, up))
            ELSE Response("getGame", 500, "Erreur lors de la recuperation du jeu",
                          [details |-> UpstreamErrorText(up)], GameReq(id, up))
  /\ UNCHANGED <<phase, setupDone, products, users, orders, reviews, seqs, pending>>

\* ---------------------------------------------------- interleaved requests
\* A handler runs from one await to the next without interruption; between
\* two of its statements the statements of other requests may execute.  No
\* handler opens a transaction.  The actions below are the statements of
\* POST /users and POST /reviews, one action each.
Slots == 1..MaxInflight

FreeSlot == CHOOSE k \in Slots \ DOMAIN pending : \A j \in Slots \ DOMAIN pending : k =< j

\* A request between two statements: the statement it executes next (pc),
\* its body, and the locals of its handler.
Inflight(op, pc, body, pid, rid) ==
  [op |-> op, pc |-> pc, body |-> body, pid |-> pid, rid |-> rid, avg |-> 0, ids |-> <<>>]

\* POST /users up to its first await: the schema, then the pre-check SELECT.
ReceivePostUser(body) ==
  /\ phase = "listening"
  /\ Slots \ DOMAIN pending # {}
  /\ IF ~UserSchema(body)
     THEN /\ resp' = ZodFailure("postUser", PostUserReq(body))
          /\ UNCHANGED pending
     ELSE IF ExistingUser(body.username, body.email) # {}
          THEN /\ resp' = Response("postUser", 409, "Un utilisateur existe deja", "none",
                                   PostUserReq(body))
               /\ UNCHANGED pending
          ELSE /\ pending' = Insert(pending, FreeSlot, Inflight("postUser", "insert", body, 0, 0))
               /\ UNCHANGED resp
  /\ UNCHANGED <<phase, setupDone, products, users, orders, reviews, seqs>>

\* POST /users: the INSERT; a UNIQUE violation is thrown to the catch.
InsertUser(slot) ==
  /\ slot \in DOMAIN pending
  /\ pending[slot].op = "postUser" /\ pending[slot].pc = "insert"
  /\ seqs.users < MaxUsers
  /\ LET body == pending[slot].body
         id == seqs.users + 1
     IN /\ seqs' = [seqs EXCEPT !.users = id]
        /\ IF UsersUnique(body.username, body.email, 0)
           THEN /\ users' = Insert(users, id,
                      [username |-> body.username, email |-> body.email,
                       password_hash |-> hashPassword(body.password)])
                /\ resp' = Response("postUser", 201, "",
                      [id |-> id, username |-> body.username, email |-> body.email],
                      PostUserReq(body))
           ELSE /\ resp' = ServerError("postUser", PostUserReq(body))
                /\ UNCHANGED users
  /\ pending' = Remove(pending, {slot})
  /\ UNCHANGED <<phase, setupDone, products, orders, reviews>>

\* POST /reviews up to the await of its pre-check: the schema, the SELECT
\* of the user, of the product and of an existing review.  Users and
\* products do not change while reviews are in flight here, so the three
\* SELECTs read what the last of them reads.
ReceivePostReview(body) ==
  /\ phase = "listening"
  /\ Slots \ DOMAIN pending # {}
  /\ IF ~ReviewSchema(body)
     THEN /\ resp' = ZodFailure("postReview", PostReviewReq(body))
          /\ UNCHANGED pending
     ELSE IF body.userId \notin DOMAIN users
          THEN /\ resp' = NotFound("postReview", "Utilisateur non trouve", PostReviewReq(body))
               /\ UNCHANGED pending
     ELSE IF body.productId \notin DOMAIN products
          THEN /\ resp' = NotFound("postReview", "Produit non trouve", PostReviewReq(body))
               /\ UNCHANGED pending
     ELSE IF ExistingReview(body.userId, body.productId) # {}
          THEN /\ resp' = Response("postReview", 409,
                                   "Vous avez deja laisse un avis pour ce produit", "none",
                                   PostReviewReq(body))
               /\ UNCHANGED pending
          ELSE /\ pending' = Insert(pending, FreeSlot,
                                    Inflight("postReview", "insert", body, body.productId, 0))
               /\ UNCHANGED resp
  /\ UNCHANGED <<phase, setupDone, products, users, orders, reviews, seqs>>

\* POST /reviews: the INSERT; a UNIQUE violation is thrown to the catch.
InsertReview(slot) ==
  /\ slot \in DOMAIN pending
  /\ pending[slot].op = "postReview" /\ pending[slot].pc = "insert"
  /\ seqs.reviews < MaxReviews
  /\ LET body == pending[slot].body
         id == seqs.reviews + 1
     IN /\ seqs' = [seqs EXCEPT !.reviews = id]
        /\ IF ReviewsUnique(body.userId, body.productId)
           THEN /\ reviews' = Insert(reviews, id,
                      [user_id |-> body.userId, product_id |-> body.productId,
                       score |-> body.score, content |-> body.content])
                /\ pending' = [pending EXCEPT ![slot].pc = "avg", ![slot].rid = id]
                /\ UNCHANGED resp
           ELSE /\ resp' = ServerError("postReview", PostReviewReq(body))
                /\ pending' = Remove(pending, {slot})
                /\ UNCHANGED reviews
  /\ UNCHANGED <<phase, setupDone, products, users, orders>>

\* updateProductScore, first statement: SELECT AVG(score), COUNT(*).
ScoreAvg(slot) ==
  /\ slot \in DOMAIN pending
  /\ pending[slot].pc = "avg"
  /\ pending' = [pending EXCEPT ![slot].pc = "ids",
                                ![slot].avg = AvgScore(reviews, pending[slot].pid)]
  /\ UNCHANGED <<phase, setupDone, products, users, orders, reviews, seqs, resp>>

\* updateProductScore, second statement: SELECT id ... ORDER BY id.
ScoreIds(slot) ==
  /\ slot \in DOMAIN pending
  /\ pending[slot].pc = "ids"
  /\ pending' = [pending EXCEPT ![slot].pc = "update",
                                ![slot].ids = ReviewIds(reviews, pending[slot].pid)]
  /\ UNCHANGED <<phase, setupDone, products, users, orders, reviews, seqs, resp>>

\* The values a recomputation computes from the reviews as they are now.
ScoreRead_Fresh(slot) ==
  [avg |-> AvgScore(reviews, pending[slot].pid), ids |-> ReviewIds(reviews, pending[slot].pid)]

\* The values the UPDATE of updateProductScore binds: avgScore and
\* reviewIds as its two SELECTs returned them.
ScoreRead(slot) == [avg |-> pending[slot].avg, ids |-> pending[slot].ids]

\* updateProductScore, third statement: UPDATE products SET total_score,
\* reviews_ids.
ScoreUpdate(slot) ==
  /\ slot \in DOMAIN pending
  /\ pending[slot].pc = "update"
  /\ products' = [p \in DOMAIN products |->
                    IF p = pending[slot].pid
                    THEN [products[p] EXCEPT !.total_score = ScoreRead(slot).avg,
                                             !.reviews_ids = ScoreRead(slot).ids]
                    ELSE products[p]]
  /\ pending' = [pending EXCEPT ![slot].pc = "details"]
  /\ UNCHANGED <<phase, setupDone, users, orders, reviews, seqs, resp>>

\* POST /reviews, last statement: the SELECT of the review with its joins,
\* then the response.
ReviewRespond(slot) ==
  /\ slot \in DOMAIN pending
  /\ pending[slot].pc = "details"
  /\ resp' = Response("postReview", 201, "", ReviewDetails(reviews, pending[slot].rid),
                      PostReviewReq(pending[slot].body))
  /\ pending' = Remove(pending, {slot})
  /\ UNCHANGED <<phase, setupDone, products, users, orders, reviews, seqs>>

\* What is recorded of a POST /reviews whose statement was rejected: the
\* statement (failed) and the id of the review it had inserted (0 if none).
FailedReviewReq(slot) ==
  [id |-> <<>>, valid |-> TRUE, user_id |-> pending[slot].body.userId,
   product_id |-> pending[slot].pid, failed |-> pending[slot].pc,
   rid |-> pending[slot].rid]

\* A catch block that would delete the review its handler had inserted.
ReviewsAfterCatch_Rollback(slot) == Remove(reviews, {pending[slot].rid})

\* The catch block of POST /reviews logs and answers; it sends no statement.
ReviewsAfterCatch(slot) == reviews

\* The store rejects the statement an in-flight POST /reviews sends next
\* (connection lost, statement timeout): the await throws, nothing of the
\* statement is applied, and the catch answers 500.
StatementFails(slot) ==
  /\ slot \in DOMAIN pending
  /\ pending[slot].op = "postReview"
  /\ resp' = ServerError("postReview", FailedReviewReq(slot))
  /\ reviews' = ReviewsAfterCatch(slot)
  /\ pending' = Remove(pending, {slot})
  /\ UNCHANGED <<phase, setupDone, products, users, orders, seqs>>

\* ------------------------------------------------------- external catalog
LowerPairs == {<<"T", "t">>, <<"C", "c">>, <<"W", "w">>}

LowerChar(c) == IF \E q \in LowerPairs : q[1] = c THEN (CHOOSE q \in LowerPairs : q[1] = c)[2] ELSE c

\* String.prototype.toLowerCase
toLowerCase(s) == [i \in 1..Len(s) |-> LowerChar(s[i])]

\* String.prototype.includes
includes(hay, needle) ==
  \E i \in 0..(Len(hay) - Len(needle)) : SubSeq(hay, i + 1, i + Len(needle)) = needle

\* The games the catalog lists, as the external API returns them (no price
\* field).
Game(i) ==
  [id |-> 450 + i,
   title |-> IF i % 2 = 1 THEN <<"T", "a", "n", "k">> ELSE <<"C", "h", "e", "s", "s">>,
   short_description |-> IF i % 2 = 1 THEN <<"W", "a", "r">> ELSE <<"b", "o", "a", "r", "d">>,
   genre |-> IF i % 2 = 1 THEN <<"s", "h", "o", "o", "t">> ELSE <<"c", "a", "r", "d">>]

Catalog(n) == [i \in 1..n |-> Game(i)]

\* The outcome of fetch("https://www.freetogame.com/api/games"): a catalog
\* of n games, a non-2xx status, or a network error.
ExternalOutcomes == {"ok", "status", "network"}

NameQueries == {<<>>, <<"t", "a", "n", "k">>}

AboutQueries == {<<>>, <<"w", "a", "r">>}

PriceQueries == {<<>>, <<"0">>}

PageQueries == {<<>>, <<"x">>, <<"0">>, <<"-", "1">>, <<"1">>, <<"2">>, <<"3">>}

LimitQueries == {<<>>, <<"-", "1">>, <<"1">>, <<"2">>}

\* The name and about filters of GET /products; the price filter keeps
\* every game that has no price field.
SearchGames(games, q) ==
  LET byName(g) == q.name = <<>> \/ includes(toLowerCase(g.title), toLowerCase(q.name))
      byAbout(g) == \/ q.about = <<>>
                    \/ includes(toLowerCase(g.short_description), toLowerCase(q.about))
                    \/ includes(toLowerCase(g.genre), toLowerCase(q.about))
  IN SelectSeq(SelectSeq(games, byName), byAbout)

\* ------------------------------------------------------------------ lists
ListBody(rows, page, limit, total, totalIsText, searchType, filters) ==
  [rows |-> rows, pagination |-> Pagination(page, limit, total, totalIsText),
   searchType |-> searchType, filters |-> filters]

\* The store-backed page of a list handler: LIMIT/OFFSET over the ordered
\* rows, COUNT(*) (a bigint, returned as text) for the totals.
StoreList(op, ids, pageQ, limitQ, searchType, req) ==
  LET page == PageOf(pageQ)
      limit == LimitOf(limitQ)
      offset == OffsetOf(page, limit)
  IN IF ~LimitOffsetOk(limit, offset) THEN ServerError(op, req)
     ELSE Response(op, 200, "",
            ListBody(LimitOffset(ids, limit, offset), page, limit, Len(ids), TRUE,
                     searchType, {}),
            req)

\* A request without name, about or price.
NoQuery == [name |-> <<>>, about |-> <<>>, price |-> <<>>]

\* GET /products: with name, about or price the external catalog is
\* searched; when that call fails the inner catch falls back to the store.
ListProducts(pageQ, limitQ, q, external, n) ==
  /\ phase = "listening"
  /\ (external = "none") = (q = NoQuery)
  /\ external # "ok" => n = 0
  /\ LET page == PageOf(pageQ)
         limit == LimitOf(limitQ)
         offset == OffsetOf(page, limit)
         isGameSearch == q.name # <<>> \/ q.about # <<>> \/ q.price # <<>>
         games == SearchGames(Catalog(n), q)
         slice == JsSlice(games, offset, offset + limit)
     IN resp' =
          IF isGameSearch /\ external = "ok"
          THEN Response("listProducts", 200, "",
                 ListBody([i \in 1..Len(slice) |-> [game |-> slice[i].id, price |-> 0]],
                          page, limit, Len(games), FALSE, "free-to-play-games", {q}),
                 ListReq(pageQ, limitQ, q, external))
          ELSE StoreList("listProducts", Ascending(DOMAIN products), pageQ, limitQ,
                         "database-products", ListReq(pageQ, limitQ, q, external))
  /\ UNCHANGED <<phase, setupDone, products, users, orders, reviews, seqs, pending>>

\* SELECT id, username, email, created_at, updated_at FROM users ORDER BY id
UserRows(ids) == [i \in 1..Len(ids) |-> PublicUser(ids[i])]

\* orders.map(order => getOrderDetails(order))
OrderRows(ids) == [i \in 1..Len(ids) |-> getOrderDetails(ids[i], orders[ids[i]])]

\* GET /users
ListUsers(pageQ, limitQ) ==
  /\ phase = "listening"
  /\ resp' = StoreList("listUsers", UserRows(Ascending(DOMAIN users)), pageQ, limitQ, "none",
                       ListReq(pageQ, limitQ, NoQuery, "none"))
  /\ UNCHANGED <<phase, setupDone, products, users, orders, reviews, seqs, pending>>

\* GET /orders
ListOrders(pageQ, limitQ) ==
  /\ phase = "listening"
  /\ resp' = StoreList("listOrders", OrderRows(Descending(DOMAIN orders)), pageQ, limitQ, "none",
                       ListReq(pageQ, limitQ, NoQuery, "none"))
  /\ UNCHANGED <<phase, setupDone, products, users, orders, reviews, seqs, pending>>

\* GET /reviews
ListReviews(pageQ, limitQ) ==
  /\ phase = "listening"
  /\ resp' = StoreList("listReviews", Descending(DOMAIN reviews), pageQ, limitQ, "none",
                       ListReq(pageQ, limitQ, NoQuery, "none"))
  /\ UNCHANGED <<phase, setupDone, products, users, orders, reviews, seqs, pending>>

\* ---------------------------------------------------------- specification
\* The :id path parameters sent: two numeric ids and a non-numeric one.
IdParams == {NatToStr(i) : i \in 1..2} \cup {<<"a", "b", "c">>}

ProductBodies == [name : NameInputs, about : {"oil lamp"}, price : PriceInputs]

UserBodies == [username : UsernameInputs, email : EmailInputs, password : PasswordInputs]

\* Two well-formed users, for the behaviours in which the users only own
\* orders and reviews.
TwoUsers ==
  {[username |-> "ann", email |-> <<"ann", "@", "x.io">>, password |-> "secret1"],
   [username |-> "bob", email |-> <<"bob", "@", "x.io">>, password |-> "secret1"]}

\* Two well-formed products priced 10.00 and 20.00.
TwoProducts == [name : {"lamp"}, about : {"oil lamp"}, price : {10000, 20000}]

OneProduct == [name : {"lamp"}, about : {"oil lamp"}, price : {10000}]

OneUser == {[username |-> "ann", email |-> <<"ann", "@", "x.io">>, password |-> "secret1"]}

OrderBodies == [userId : UserIdInputs, productIds : ProductIdLists]

\* Update bodies; a field that is absent has no value to vary.
OrderUpdateBodies ==
  {b \in [has : SUBSET {"userId", "productIds"}, userId : UserIdInputs \ {0},
          productIds : ProductIdLists \ {<<>>}, payment : {FALSE}] :
     /\ "userId" \notin b.has => b.userId = 1
     /\ "productIds" \notin b.has => b.productIds = <<1>>}

ReviewBodies ==
  [userId : UserIdInputs \ {0}, productId : ProductIdInputs, score : ScoreInputs,
   content : ContentInputs]

ReviewUpdateBodies ==
  {b \in [has : SUBSET ReviewFields, score : ScoreInputs, content : {"fine"}] :
     "score" \notin b.has => b.score = 4}

SearchQueries == [name : NameQueries, about : AboutQueries, price : PriceQueries]

\* The searches sent to the list of products: the price filter drops no
\* game, so it is sent alone.
ListSearches == {q \in SearchQueries : q.price = <<>> \/ (q.name = <<>> /\ q.about = <<>>)}

Startup == SetupStatement \/ SetupFailure \/ Listen

\* Orders: products and users are created, orders go through every handler.
NextOrders ==
  \/ Startup
  \/ \E body \in TwoProducts : PostProduct(body, "hang")
  \/ \E body \in TwoUsers : PostUser(body)
  \/ \E body \in OrderBodies : PostOrder(body)
  \/ \E id \in IdParams : GetOrder(id)
  \/ \E id \in IdParams, body \in OrderUpdateBodies : PutOrder(id, body)
  \/ \E id \in IdParams, body \in OrderUpdateBodies : PatchOrder(id, body)
  \/ \E id \in IdParams : DeleteOrder(id)

SpecOrders == Init /\ [][NextOrders]_vars

\* The review bodies with a content, and one without.
ReviewPosts ==
  {b \in ReviewBodies : b.content # "" \/ (b.userId = 1 /\ b.productId = 1 /\ b.score = 4)}

\* Reviews: products and users are created, reviews go through every
\* handler.
NextReviews ==
  \/ Startup
  \/ \E body \in OneProduct : PostProduct(body, "hang")
  \/ \E body \in TwoUsers : PostUser(body)
  \/ \E body \in ReviewPosts : PostReview(body)
  \/ \E id \in IdParams, body \in ReviewUpdateBodies : PutReview(id, body)
  \/ \E id \in IdParams, body \in ReviewUpdateBodies : PatchReview(id, body)
  \/ \E id \in IdParams : DeleteReview(id)
  \/ \E id \in IdParams : DeleteUser(id)

SpecReviews == Init /\ [][NextReviews]_vars

\* Orders and reviews of either user on the one product.
OwnedOrders == [userId : {1, 2}, productIds : {<<1>>}]

OwnedReviews == [userId : {1, 2}, productId : {1}, score : {4}, content : {"fine"}]

\* Deleting users that own orders and reviews.
NextCascade ==
  \/ Startup
  \/ \E body \in OneProduct : PostProduct(body, "hang")
  \/ \E body \in TwoUsers : PostUser(body)
  \/ \E body \in OwnedOrders : PostOrder(body)
  \/ \E body \in OwnedReviews : PostReview(body)
  \/ \E id \in IdParams : DeleteUser(id)
  \/ \E id \in IdParams : GetOrder(id)
  \/ \E id \in IdParams : GetReview(id)

SpecCascade == Init /\ [][NextCascade]_vars

\* One order and one review body, for the behaviours that only need rows to
\* exist.
OneOrder == [userId : {1}, productIds : {<<1>>}]

OneReview == [userId : {1}, productId : {1}, score : {4}, content : {"fine"}]

UserUpdateBodies ==
  {b \in [has : SUBSET UserFields, username : {"al", "cat"},
          email : {<<"cat", "@", "x.io">>}, password : {"secret2"}] :
     "username" \notin b.has => b.username = "cat"}

\* The update bodies that carry every field or none.
WholeOrEmpty(bodies) ==
  {b \in bodies : b.has = {} \/ \A c \in bodies : c.has \subseteq b.has}

\* One update body of each kind for the behaviours that vary the :id.
IdUserUpdates == {b \in WholeOrEmpty(UserUpdateBodies) : b.username = "cat"}

IdOrderUpdates == {b \in WholeOrEmpty(OrderUpdateBodies) : b.userId = 1 /\ b.productIds = <<1>>}

IdReviewUpdates == {b \in WholeOrEmpty(ReviewUpdateBodies) : b.score = 4}

\* Every handler that takes an :id path parameter, over rows of each
\* resource.
NextIds ==
  \/ Startup
  \/ \E body \in OneProduct : PostProduct(body, "hang")
  \/ \E body \in OneUser : PostUser(body)
  \/ \E body \in OneOrder : PostOrder(body)
  \/ \E body \in OneReview : PostReview(body)
  \/ \E id \in IdParams : GetProduct(id)
  \/ \E id \in IdParams : DeleteProduct(id)
  \/ \E id \in IdParams : GetUser(id)
  \/ \E id \in IdParams, body \in IdUserUpdates : PutUser(id, body)
  \/ \E id \in IdParams, body \in IdUserUpdates : PatchUser(id, body)
  \/ \E id \in IdParams : DeleteUser(id)
  \/ \E id \in IdParams : GetOrder(id)
  \/ \E id \in IdParams, body \in IdOrderUpdates : PutOrder(id, body)
  \/ \E id \in IdParams, body \in IdOrderUpdates : PatchOrder(id, body)
  \/ \E id \in IdParams : DeleteOrder(id)
  \/ \E id \in IdParams : GetReview(id)
  \/ \E id \in IdParams, body \in IdReviewUpdates : PutReview(id, body)
  \/ \E id \in IdParams, body \in IdReviewUpdates : PatchReview(id, body)
  \/ \E id \in IdParams : DeleteReview(id)

SpecIds == Init /\ [][NextIds]_vars

\* The update handlers of users, orders and reviews, PUT and PATCH alike,
\* over stored and missing rows and over bodies with and without each
\* field.
UpdateIds == {NatToStr(i) : i \in 1..2}

UserUpdates ==
  {b \in UserUpdateBodies :
     b.has \in {{}, {"username"}, {"username", "email"}, UserFields}}

OrderUpdates ==
  [has : SUBSET OrderFields, userId : {2}, productIds : {<<1>>}, payment : {TRUE}]

ReviewUpdates == {b \in ReviewUpdateBodies : b.score \in {0, 5}}

NextUpdates ==
  \/ Startup
  \/ \E body \in OneProduct : PostProduct(body, "hang")
  \/ \E body \in TwoUsers : PostUser(body)
  \/ \E body \in OneOrder : PostOrder(body)
  \/ \E body \in OneReview : PostReview(body)
  \/ \E id \in UpdateIds, body \in UserUpdates : PutUser(id, body)
  \/ \E id \in UpdateIds, body \in UserUpdates : PatchUser(id, body)
  \/ \E id \in UpdateIds, body \in OrderUpdates : PutOrder(id, body)
  \/ \E id \in UpdateIds, body \in OrderUpdates : PatchOrder(id, body)
  \/ \E id \in UpdateIds, body \in ReviewUpdates : PutReview(id, body)
  \/ \E id \in UpdateIds, body \in ReviewUpdates : PatchReview(id, body)

SpecUpdates == Init /\ [][NextUpdates]_vars

\* Deletes of every resource, over orders and reviews on either product.
EitherProductOrders == [userId : {1}, productIds : {<<1>>, <<2>>}]

EitherProductReviews == [userId : {1, 2}, productId : {1, 2}, score : {4}, content : {"fine"}]

NextDeletes ==
  \/ Startup
  \/ \E body \in OneProduct : PostProduct(body, "hang")
  \/ \E body \in TwoUsers : PostUser(body)
  \/ \E body \in EitherProductOrders : PostOrder(body)
  \/ \E body \in EitherProductReviews : PostReview(body)
  \/ \E id \in IdParams : DeleteProduct(id)
  \/ \E id \in IdParams : DeleteUser(id)
  \/ \E id \in IdParams : DeleteOrder(id)
  \/ \E id \in IdParams : DeleteReview(id)
  \/ \E id \in IdParams : GetReview(id)

SpecDeletes == Init /\ [][NextDeletes]_vars

\* The games endpoints, over ids that are and are not numbers and every
\* outcome of the call of the catalog.
GameIds ==
  {<<"7">>, <<"4", "5", "2">>, <<"a", "b", "c">>, <<"7", "a">>, <<" ">>,
   <<"1", "e", "3">>, <<"0", "x", "1", "f">>, <<"-", "1">>, <<"1", ".", "5">>,
   <<"I", "n", "f", "i", "n", "i", "t", "y">>}

NextGames ==
  \/ Startup
  \/ \E body \in OneProduct : PostProduct(body, "hang")
  \/ \E platform \in GameFilterInputs, tag \in GameTagInputs, up \in UpstreamOutcomes,
        n \in 0..MaxGames : ListGames(platform, tag, up, n)
  \/ \E id \in GameIds, up \in UpstreamOutcomes \cup {NoUpstream} : GetGame(id, up)

SpecGames == Init /\ [][NextGames]_vars

ListPages == PageQueries \ {<<"x">>, <<"0">>}

ListLimits == LimitQueries

\* The list handlers over every page and limit parameter, with the
\* external catalog answering, refusing or unreachable.
NextLists ==
  \/ Startup
  \/ \E body \in OneProduct : PostProduct(body, "hang")
  \/ \E body \in OneUser : PostUser(body)
  \/ \E body \in OneOrder : PostOrder(body)
  \/ \E body \in OneReview : PostReview(body)
  \/ \E pageQ \in ListPages, limitQ \in ListLimits, q \in ListSearches,
        external \in ExternalOutcomes \cup {"none"}, n \in {0, MaxGames} :
        ListProducts(pageQ, limitQ, q, external, n)
  \/ \E pageQ \in ListPages, limitQ \in ListLimits : ListUsers(pageQ, limitQ)
  \/ \E pageQ \in ListPages, limitQ \in ListLimits : ListOrders(pageQ, limitQ)
  \/ \E pageQ \in ListPages, limitQ \in ListLimits : ListReviews(pageQ, limitQ)

SpecLists == Init /\ [][NextLists]_vars

\* The create handlers over every body, a rejected product insert ending
\* in each of the ways an unhandled rejection can end.
NextCreate ==
  \/ Startup
  \/ \E body \in ProductBodies, outcome \in UnhandledOutcomes : PostProduct(body, outcome)
  \/ \E body \in UserBodies : PostUser(body)
  \/ \E body \in OrderBodies : PostOrder(body)
  \/ \E body \in ReviewBodies : PostReview(body)

SpecCreate == Init /\ [][NextCreate]_vars

\* Users through every users handler, with an order and a review that
\* embed their owner in what they return.
NextUsers ==
  \/ Startup
  \/ \E body \in OneProduct : PostProduct(body, "hang")
  \/ \E body \in UserBodies : PostUser(body)
  \/ \E id \in IdParams : GetUser(id)
  \/ \E id \in IdParams, body \in UserUpdateBodies : PutUser(id, body)
  \/ \E id \in IdParams, body \in UserUpdateBodies : PatchUser(id, body)
  \/ \E id \in IdParams : DeleteUser(id)
  \/ ListUsers(<<>>, <<>>)
  \/ \E body \in OneOrder : PostOrder(body)
  \/ \E id \in IdParams : GetOrder(id)
  \/ ListOrders(<<>>, <<>>)
  \/ \E body \in OneReview : PostReview(body)
  \/ \E id \in IdParams : GetReview(id)
  \/ \E id \in IdParams : GetProduct(id)

SpecUsers == Init /\ [][NextUsers]_vars

\* A review of each user on the one product.
RaceReviews ==
  {[userId |-> 1, productId |-> 1, score |-> 4, content |-> "fine"],
   [userId |-> 2, productId |-> 1, score |-> 5, content |-> "fine"]}

\* Creates of users, statement by statement, up to MaxInflight requests at
\* a time.
NextUserRaces ==
  \/ Startup
  \/ \E body \in UserBodies : ReceivePostUser(body)
  \/ \E slot \in Slots : InsertUser(slot)

SpecUserRaces == Init /\ [][NextUserRaces]_vars

\* Creates of reviews, statement by statement, up to MaxInflight requests
\* at a time.
NextRaces ==
  \/ Startup
  \/ \E body \in OneProduct : PostProduct(body, "hang")
  \/ \E body \in TwoUsers : PostUser(body)
  \/ \E body \in RaceReviews : ReceivePostReview(body)
  \/ \E slot \in Slots : InsertReview(slot)
  \/ \E slot \in Slots : ScoreAvg(slot)
  \/ \E slot \in Slots : ScoreIds(slot)
  \/ \E slot \in Slots : ScoreUpdate(slot)
  \/ \E slot \in Slots : ReviewRespond(slot)

SpecRaces == Init /\ [][NextRaces]_vars

\* Creates of reviews, statement by statement, any statement of which the
\* store may reject.
NextFailures ==
  \/ Startup
  \/ \E body \in OneProduct : PostProduct(body, "hang")
  \/ \E body \in TwoUsers : PostUser(body)
  \/ \E body \in RaceReviews : ReceivePostReview(body)
  \/ \E slot \in Slots : InsertReview(slot)
  \/ \E slot \in Slots : ScoreAvg(slot)
  \/ \E slot \in Slots : ScoreIds(slot)
  \/ \E slot \in Slots : ScoreUpdate(slot)
  \/ \E slot \in Slots : ReviewRespond(slot)
  \/ \E slot \in Slots : StatementFails(slot)

SpecFailures == Init /\ [][NextFailures]_vars

\* ================================================================ claims
\* The tax-inclusive total of a product list, from the stored prices:
\* the sum of the prices, one term per entry, times 1.20, to the cent.
RECURSIVE SumPrices(_)
SumPrices(productIds) ==
  IF productIds = <<>> THEN 0
  ELSE products[Head(productIds)].price + SumPrices(Tail(productIds))

ExpectedTotal(productIds) == Num((SumPrices(productIds) * 120 + 50) \div 100)

OrderWrites == {"postOrder", "putOrder", "patchOrder"}

\* C1: an order successfully created, or updated, holds as total the sum of
\* the prices of its product list times 1.20, rounded to the cent
\* (10.00 and 20.00 give 36.00).
C1_TotalIsSumWithVAT ==
  (resp.op \in OrderWrites /\ resp.status \in {200, 201}) =>
    /\ orders[resp.body.id].total = ExpectedTotal(orders[resp.body.id].product_ids)
    /\ resp.body.total = ExpectedTotal(resp.body.product_ids)

ReviewWrites == {"postReview", "putReview", "patchReview", "deleteReview"}

\* m is the mean of the scores of the reviews ids, in hundredths, rounded
\* to the nearest hundredth (0 when there are none).
IsRoundedMean(m, ids) ==
  LET n == Cardinality(ids)
      sum == SumScores(reviews, ids)
  IN IF n = 0 THEN m = 0
     ELSE 2 * m * n <= 200 * sum + n /\ 200 * sum + n < 2 * m * n + 2 * n

IsAscending(s) == \A i \in 1..(Len(s) - 1) : s[i] < s[i + 1]

ScoreMatchesReviews(pid) ==
  /\ IsRoundedMean(products[pid].total_score, ReviewsOfProduct(pid))
  /\ Range(products[pid].reviews_ids) = ReviewsOfProduct(pid)
  /\ IsAscending(products[pid].reviews_ids)

\* C2: after a review create, update or delete that succeeded, the product
\* of that review has as aggregate score the mean of the scores of its
\* stored reviews (two decimals, 0 without reviews) and as review-id list
\* their ids in ascending order.
C2_ScoreRecomputed ==
  (resp.op \in ReviewWrites /\ resp.status \in {200, 201}) =>
    ScoreMatchesReviews(resp.req.product_id)

\* Reviews scored 4 and 5 on one product: score 4.50, both ids.
C2_Witness ==
  /\ resp.op = "postReview" /\ resp.status = 201
  /\ \E p \in DOMAIN products :
       /\ products[p].total_score = 450
       /\ products[p].reviews_ids = <<1, 2>>
       /\ {reviews[r].score : r \in ReviewsOfProduct(p)} = {4, 5}

\* C3: a schema-valid POST /reviews for a (user, product) pair that has a
\* stored review is answered 409, inserts no review and leaves every
\* product's aggregate score and review-id list as they were.
C3_DuplicateReviewRejected ==
  [][(/\ resp'.op = "postReview"
      /\ resp'.req.valid
      /\ \E r \in DOMAIN reviews :
           /\ reviews[r].user_id = resp'.req.user_id
           /\ reviews[r].product_id = resp'.req.product_id)
     => (resp'.status = 409 /\ reviews' = reviews /\ products' = products)]_vars

\* A 409 answered while the product carries the score of its one review.
C3_Witness ==
  /\ resp.op = "postReview" /\ resp.status = 409
  /\ \E p \in DOMAIN products : products[p].total_score > 0

\* C4: after DELETE /users/:id has succeeded, a get-by-id on any order or
\* review the user owned answers 404.
C4_UserDeleteCascades ==
  [][(resp'.op = "deleteUser" /\ resp'.status = 200) =>
       /\ \A o \in OrdersOfUser(resp'.body.id) :
            (GetOrderResponse(NatToStr(o)))'.status = 404
       /\ \A r \in ReviewsOfUser(resp'.body.id) :
            (GetReviewResponse(NatToStr(r)))'.status = 404]_vars

\* The only user ever created is deleted after an order and a review of
\* theirs were stored, and both are gone.
C4_Witness ==
  /\ resp.op = "deleteUser" /\ resp.status = 200
  /\ seqs.users = 1 /\ seqs.orders >= 1 /\ seqs.reviews >= 1
  /\ orders = <<>> /\ reviews = <<>>

\* C5: a get, update or delete whose :id path parameter is not a number is
\* answered with a 4xx status, never with 500.
C5_NonNumericIdRefused ==
  (resp.req.id # <<>> /\ ~AllDigits(resp.req.id)) => resp.status \in 400..499

ListOps == {"listProducts", "listUsers", "listOrders", "listReviews"}

\* The number of rows the listed resource holds: the rows of the table, or
\* for a search of the catalog the games its filters keep.
ListedRows ==
  IF resp.op = "listUsers" THEN Cardinality(DOMAIN users)
  ELSE IF resp.op = "listOrders" THEN Cardinality(DOMAIN orders)
  ELSE IF resp.op = "listReviews" THEN Cardinality(DOMAIN reviews)
  ELSE IF resp.body.searchType = "database-products" THEN Cardinality(DOMAIN products)
  ELSE resp.body.pagination.total

\* t is the least integer not below a / b.
IsCeil(t, a, b) ==
  IF b > 0 THEN t * b >= a /\ (t - 1) * b < a
  ELSE t * b =< a /\ (t - 1) * b > a

\* C6: a list request with page >= 1 and limit L >= 1 is answered 200; over
\* N > 0 rows, page ceil(N/L) holds the N - (ceil(N/L)-1)*L remaining rows
\* with hasNext false; page 1 with N > L holds L rows with hasNext true and
\* hasPrev false; every list response has totalPages = ceil(total/L),
\* hasNext = (page < totalPages) and hasPrev = (page > 1).
C6_Pagination ==
  /\ (resp.op \in ListOps /\ PageOf(resp.req.page) >= 1 /\ LimitOf(resp.req.limit) >= 1)
       => resp.status = 200
  /\ (resp.op \in ListOps /\ resp.status = 200) =>
       LET p == resp.body.pagination
           N == ListedRows
           L == p.limit
           got == Len(resp.body.rows)
       IN /\ p.total = N
          /\ IsCeil(p.totalPages, p.total, L)
          /\ p.hasNext = (p.page < p.totalPages)
          /\ p.hasPrev = (p.page > 1)
          /\ (N > 0 /\ L >= 1 /\ IsCeil(p.page, N, L)) =>
                (got = N - (p.page - 1) * L /\ ~p.hasNext)
          /\ (N > L /\ L >= 1 /\ p.page = 1) =>
                (got = L /\ p.hasNext /\ ~p.hasPrev)

\* A last page after the first that holds fewer rows than the limit.
C6_Witness ==
  /\ resp.op \in ListOps /\ resp.status = 200
  /\ resp.body.pagination.page > 1
  /\ resp.body.pagination.page = resp.body.pagination.totalPages
  /\ Len(resp.body.rows) > 0
  /\ Len(resp.body.rows) < resp.body.pagination.limit
  /\ ~resp.body.pagination.hasNext /\ resp.body.pagination.hasPrev

\* C7: GET /products with name, about or price, the external catalog call
\* failing, is answered 200 with the stored page of products, the stored
\* total, searchType "database-products" and no filters.
C7_ExternalFailureFallsBack ==
  (resp.op = "listProducts" /\ resp.req.external \in {"status", "network"}) =>
    /\ resp.status = 200
    /\ resp.body.searchType = "database-products"
    /\ resp.body.filters = {}
    /\ resp.body.pagination.total = Cardinality(DOMAIN products)
    /\ \A i \in 1..Len(resp.body.rows) : resp.body.rows[i] \in DOMAIN products

Creates == {"postProduct", "postUser", "postOrder", "postReview"}

\* C8: a create request whose body passes its schema, and that is not
\* refused for a missing or duplicate row, succeeds, and the row stored and
\* returned has a price above 0, a score in 1..5, a total of at least 0 and
\* a product list that is not empty.
C8_ValidCreateSucceeds ==
  (resp.op \in Creates /\ resp.req.valid /\ resp.status \notin {404, 409}) =>
    /\ resp.status \in {200, 201}
    /\ resp.op = "postProduct" =>
         (resp.body.price > 0 /\ products[resp.body.id].price > 0)
    /\ resp.op = "postReview" =>
         (resp.body # {} /\ \A r \in resp.body : r.score \in 1..5 /\ reviews[r.id].score \in 1..5)
    /\ resp.op = "postOrder" =>
         /\ ~resp.body.total.nan /\ resp.body.total.n >= 0
         /\ ~orders[resp.body.id].total.nan /\ orders[resp.body.id].total.n >= 0
         /\ resp.body.product_ids # <<>>

\* C9: every request is answered, by the handler, with a JSON body, and
\* the server goes on serving.
C9_EveryRequestAnswered ==
  resp.op # "none" => (resp.status # 0 /\ resp.json /\ phase = "listening")

\* C10: the server listens, and a request is served, only once the five
\* setup statements have succeeded; after a failed statement the process
\* has exited, takes no further step and has served nothing.
C10_ListenAfterSetup ==
  [][/\ (phase' \notin {"starting", "exited"} \/ resp'.op # "none")
          => (setupDone = Len(SetupStatements) /\ setupDone' = setupDone)
     /\ phase' = "exited" => (resp'.op = "none" /\ setupDone' < Len(SetupStatements))
     /\ phase # "exited"]_vars

\* A request served after the setup has completed.
C10_Witness ==
  /\ phase = "listening" /\ setupDone = Len(SetupStatements)
  /\ resp.op = "getOrder" /\ resp.status = 200

UserOps == {"postUser", "getUser", "putUser", "patchUser", "deleteUser"}

OrderOps == {"postOrder", "getOrder", "putOrder", "patchOrder", "deleteOrder"}

\* The records of a successful response that describe a user: the user
\* itself, the rows of a list of users, the owner embedded in an order, the
\* reviewer columns joined to a review.
ShownUsers ==
  IF resp.status \notin {200, 201} THEN {}
  ELSE IF resp.op \in UserOps THEN {resp.body}
  ELSE IF resp.op = "listUsers" THEN Range(resp.body.rows)
  ELSE IF resp.op \in OrderOps THEN resp.body.user
  ELSE IF resp.op = "listOrders" THEN UNION {o.user : o \in Range(resp.body.rows)}
  ELSE IF resp.op = "getReview" THEN resp.body
  ELSE IF resp.op = "getProduct" THEN Range(resp.body.reviews)
  ELSE {}

\* Every password a request of the model carries.
Passwords == PasswordInputs \cup {b.password : b \in UserUpdateBodies}

\* C11: no response carries a user's password or password hash, and every
\* stored user holds the hash of a password, never the password itself.
C11_PasswordNeverExposed ==
  /\ \A u \in ShownUsers : DOMAIN u \cap {"password", "password_hash"} = {}
  /\ \A u \in DOMAIN users :
       /\ users[u].password_hash \notin Passwords
       /\ \E pw \in Passwords : users[u].password_hash = hashPassword(pw)

\* A user whose password was replaced is returned, embedded in their order.
C11_Witness ==
  /\ resp.op = "getOrder" /\ resp.status = 200
  /\ \E u \in resp.body.user : users[u.id].password_hash = hashPassword("secret2")

\* C12: a POST /users whose username or email is that of a stored user is
\* answered 409 and stores nothing; no two stored users ever share a
\* username or an email.
C12_DuplicateUserRejected ==
  [][/\ (/\ resp'.op = "postUser"
         /\ resp'.req.valid
         /\ \E u \in DOMAIN users : \/ users[u].username = resp'.req.username
                                    \/ users[u].email = resp'.req.email)
        => (resp'.status = 409 /\ users' = users)
     /\ \A u, v \in DOMAIN users' :
          u # v => (users'[u].username # users'[v].username /\ users'[u].email # users'[v].email)]_vars

\* A user is refused for the email of a stored user, under another name.
C12_Witness ==
  /\ resp.op = "postUser" /\ resp.status = 409
  /\ \E u \in DOMAIN users : users[u].email = resp.req.email /\ users[u].username # resp.req.username
  /\ \A u \in DOMAIN users : users[u].username # resp.req.username

\* C13: a create of a user or a review that meets a uniqueness conflict is
\* answered 409, also when the conflicting row was inserted between its
\* pre-check and its own INSERT: such a create is never answered 500.
C13_ConflictAnswered409 ==
  (resp.op \in {"postUser", "postReview"}) => resp.status \in {201, 400, 404, 409}

\* C14: the store never holds two reviews of one user on one product.
C14_OneReviewPerPair ==
  \A r, q \in DOMAIN reviews :
    (reviews[r].user_id = reviews[q].user_id /\ reviews[r].product_id = reviews[q].product_id)
      => r = q

\* Two creates of the same review passed the pre-check together; the
\* second INSERT was refused and one review of the pair is stored.
C14_Witness ==
  /\ resp.op = "postReview" /\ resp.status = 500
  /\ Cardinality({r \in DOMAIN reviews : /\ reviews[r].user_id = resp.req.user_id
                                         /\ reviews[r].product_id = resp.req.product_id}) = 1

\* C15: the aggregate score and review-id list of a product are only ever
\* written by the UPDATE of a recomputation, with the values that
\* recomputation's two SELECTs returned earlier; so after interleaved
\* creates they are those of the UPDATE executed last, whatever reviews are
\* stored by then.
C15_LastScoreWriteWins ==
  [][\A p \in DOMAIN products :
       products'[p] # products[p] =>
         \E slot \in DOMAIN pending :
           /\ pending[slot].pc = "update" /\ pending[slot].pid = p
           /\ slot \in DOMAIN pending' /\ pending'[slot].pc = "details"
           /\ products'[p].total_score = pending[slot].avg
           /\ products'[p].reviews_ids = pending[slot].ids]_vars

\* Both creates have been answered, and the product's score is the score
\* of one review while two are stored.
C15_Witness ==
  /\ pending = <<>>
  /\ resp.op = "postReview" /\ resp.status = 201
  /\ \E p \in DOMAIN products :
       /\ Cardinality(ReviewsOfProduct(p)) = 2
       /\ products[p].total_score # AvgScore(reviews, p)

UpdateOps == {"putUser", "patchUser", "putOrder", "patchOrder", "putReview", "patchReview"}

\* The table an update operation writes.
TableOf(op) ==
  IF op \in {"putUser", "patchUser"} THEN users
  ELSE IF op \in {"putOrder", "patchOrder"} THEN orders
  ELSE reviews

\* C16: a PUT or PATCH of a stored user, order or review whose body carries
\* none of the updatable fields is answered 400.
C16_EmptyUpdateRejected ==
  (/\ resp.op \in UpdateOps
   /\ resp.req.body.has = {}
   /\ PgInt4Ok(resp.req.id)
   /\ PgInt4In(resp.req.id) \in DOMAIN TableOf(resp.op))
  => resp.status = 400

UnknownProduct(productIds) == \E i \in 1..Len(productIds) : productIds[i] \notin DOMAIN products

\* C18: a schema-valid POST /orders naming an unknown user or an unknown
\* product is answered 404 and inserts nothing; a schema-valid update of a
\* stored order naming an unknown user or an unknown product is answered 404
\* and leaves the orders unchanged.
C18_UnknownReferenceRefused ==
  [][/\ (/\ resp'.op = "postOrder"
          /\ resp'.req.valid
          /\ (resp'.req.userId \notin DOMAIN users \/ UnknownProduct(resp'.req.productIds)))
         => (resp'.status = 404 /\ orders' = orders /\ seqs' = seqs)
     /\ (/\ resp'.op \in {"putOrder", "patchOrder"}
          /\ OrderUpdateSchema(resp'.req.body)
          /\ PgInt4Ok(resp'.req.id)
          /\ PgInt4In(resp'.req.id) \in DOMAIN orders
          /\ \/ ("userId" \in resp'.req.body.has /\ resp'.req.body.userId \notin DOMAIN users)
             \/ ("productIds" \in resp'.req.body.has /\ UnknownProduct(resp'.req.body.productIds)))
         => (resp'.status = 404 /\ orders' = orders)]_vars

\* An update of a stored order by a stored user was refused for a product
\* of its list that is not stored.
C18_Witness ==
  /\ resp.op \in {"putOrder", "patchOrder"}
  /\ resp.status = 404
  /\ PgInt4Ok(resp.req.id)
  /\ PgInt4In(resp.req.id) \in DOMAIN orders
  /\ "productIds" \in resp.req.body.has
  /\ UnknownProduct(resp.req.body.productIds)
  /\ ("userId" \in resp.req.body.has => resp.req.body.userId \in DOMAIN users)

\* C19: at every point each stored order's total is the tax-inclusive total
\* of its current product list (sum of the prices times 1.20), whatever
\* creates and updates the order went through.
C19_TotalFollowsProductList ==
  \A o \in DOMAIN orders :
     Range(orders[o].product_ids) \subseteq DOMAIN products =>
       orders[o].total = ExpectedTotal(orders[o].product_ids)

DeleteOps == {"deleteProduct", "deleteUser", "deleteOrder", "deleteReview"}

\* C20: a DELETE answered 200 carries the deleted row in its body: the row
\* of the id deleted for products, users and orders, and for reviews the
\* fields of the deleted review.
C20_DeleteReturnsRow ==
  (resp.op \in DeleteOps /\ resp.status = 200) =>
    IF resp.op = "deleteReview"
    THEN \E r \in resp.body : r.id = PgInt4In(resp.req.id)
    ELSE resp.body.id = PgInt4In(resp.req.id)

\* The body of the request answered violates the schema of its route.
SchemaViolated ==
  IF resp.op \in Creates THEN ~resp.req.valid
  ELSE IF resp.op \in {"putUser", "patchUser"} THEN ~UserUpdateSchema(resp.req.body)
  ELSE IF resp.op \in {"putOrder", "patchOrder"} THEN ~OrderUpdateSchema(resp.req.body)
  ELSE ~ReviewUpdateSchema(resp.req.body)

\* C21: a create or update whose body violates the schema is answered 400
\* with the envelope {error: "Donnees invalides", details: [...]} listing the
\* violated constraints, product creation included.
C21_SchemaFailureEnvelope ==
  (resp.op \in Creates \cup UpdateOps /\ SchemaViolated) =>
    /\ resp.status = 400
    /\ resp.error = "Donnees invalides"
    /\ resp.body = "details"

\* The username or the email the body supplies is held by a user other
\* than uid.
HeldByAnother(body, uid) ==
  \E u \in (DOMAIN users) \ {uid} :
     \/ ("username" \in body.has /\ users[u].username = body.username)
     \/ ("email" \in body.has /\ users[u].email = body.email)

\* C22: a schema-valid update of a stored user that supplies a username or
\* an email is answered 409 when another user holds the value supplied, and
\* 200 otherwise, whether it supplies one of the two or both.
C22_UserUpdateConflict ==
  (/\ resp.op \in {"putUser", "patchUser"}
   /\ UserUpdateSchema(resp.req.body)
   /\ PgInt4Ok(resp.req.id)
   /\ PgInt4In(resp.req.id) \in DOMAIN users
   /\ resp.req.body.has \cap {"username", "email"} # {})
  => resp.status = IF HeldByAnother(resp.req.body, PgInt4In(resp.req.id)) THEN 409 ELSE 200

\* C23: after DELETE /products/:id has succeeded every review of the product
\* is gone from the store and a get-by-id on it answers 404; a successful
\* DELETE /orders/:id removes that order only and changes no user and no
\* product.
C23_ProductDeleteCascades ==
  [][/\ (resp'.op = "deleteProduct" /\ resp'.status = 200) =>
          \A r \in ReviewsOfProduct(resp'.body.id) :
             /\ r \notin DOMAIN reviews'
             /\ (GetReviewResponse(NatToStr(r)))'.status = 404
     /\ (resp'.op = "deleteOrder" /\ resp'.status = 200) =>
          /\ orders' = Remove(orders, {resp'.body.id})
          /\ resp'.body.id \in DOMAIN orders
          /\ users' = users
          /\ products' = products
          /\ reviews' = reviews]_vars

\* Product 1 was deleted while it had a review whose author is still
\* stored, and a review of product 2 is still there.
C23_Witness ==
  /\ resp.op = "deleteProduct" /\ resp.status = 200
  /\ resp.body.id = 1
  /\ resp.body.product.reviews_ids # <<>>
  /\ seqs.users = Cardinality(DOMAIN users)
  /\ \E r \in DOMAIN reviews : reviews[r].product_id = 2
  /\ \A r \in DOMAIN reviews : reviews[r].product_id # 1

\* C24: on GET /f2p-games and GET /f2p-games/:id every call of the catalog
\* that fails (non-2xx status or network failure) is answered 500 with the
\* upstream error text in the body, and an id that is not a number is
\* answered 400 without a call of the catalog.
C24_GamesFailureSurfaced ==
  /\ (resp.op \in {"listGames", "getGame"} /\ resp.req.upstream # NoUpstream
      /\ ~resp.req.upstream.ok)
       => (resp.status = 500 /\ resp.body.details = UpstreamErrorText(resp.req.upstream))
  /\ (resp.op = "getGame" /\ ~AllDigits(resp.req.id))
       => (resp.status = 400 /\ resp.req.upstream = NoUpstream)

\* C25: in every state reached by whole requests, user deletion included,
\* every product's review-id list holds exactly the ids of the reviews
\* stored for it and its aggregate score is their mean (0 without reviews).
C25_ScoreAlwaysCurrent ==
  \A p \in DOMAIN products :
     /\ Range(products[p].reviews_ids) = ReviewsOfProduct(p)
     /\ IsRoundedMean(products[p].total_score, ReviewsOfProduct(p))

\* C26: in every state every product id of every stored order is the id of
\* a stored product, every order's user is stored, and every review's user
\* and product are stored.
C26_ReferencesResolve ==
  /\ \A o \in DOMAIN orders :
       /\ Range(orders[o].product_ids) \subseteq DOMAIN products
       /\ orders[o].user_id \in DOMAIN users
  /\ \A r \in DOMAIN reviews :
       /\ reviews[r].user_id \in DOMAIN users
       /\ reviews[r].product_id \in DOMAIN products

\* C27: whatever the page and limit query parameters, a list handler uses a
\* page of at least 1 and a page size of at least 1, its offset is never
\* negative and the request is answered 200.
C27_PageAndLimitPositive ==
  resp.op \in ListOps =>
    /\ PageOf(resp.req.page) >= 1
    /\ LimitOf(resp.req.limit) >= 1
    /\ OffsetOf(PageOf(resp.req.page), LimitOf(resp.req.limit)) >= 0
    /\ resp.status = 200

\* Table after differs from table before in row id at most.
OnlyRowChanged(before, after, id) ==
  /\ DOMAIN after = DOMAIN before
  /\ \A i \in (DOMAIN before) \ {id} : after[i] = before[i]

\* C28: an update answered 200 changes, in the row of its id, the fields its
\* body supplies (and the total of an order whose product list is supplied)
\* and nothing else in users, orders and reviews: a review keeps its user and
\* product, and a user updated without password keeps the stored hash.
C28_UpdateFrame ==
  [][(resp'.op \in UpdateOps /\ resp'.status = 200) =>
       LET id == PgInt4In(resp'.req.id)
           body == resp'.req.body
       IN IF resp'.op \in {"putUser", "patchUser"}
          THEN /\ OnlyRowChanged(users, users', id)
               /\ orders' = orders /\ reviews' = reviews
               /\ "username" \notin body.has => users'[id].username = users[id].username
               /\ "email" \notin body.has => users'[id].email = users[id].email
               /\ "password" \notin body.has => users'[id].password_hash = users[id].password_hash
               /\ "username" \in body.has => users'[id].username = body.username
               /\ "email" \in body.has => users'[id].email = body.email
               /\ "password" \in body.has => users'[id].password_hash = hashPassword(body.password)
          ELSE IF resp'.op \in {"putOrder", "patchOrder"}
          THEN /\ OnlyRowChanged(orders, orders', id)
               /\ users' = users /\ reviews' = reviews
               /\ "userId" \notin body.has => orders'[id].user_id = orders[id].user_id
               /\ "payment" \notin body.has => orders'[id].payment = orders[id].payment
               /\ "productIds" \notin body.has =>
                    /\ orders'[id].product_ids = orders[id].product_ids
                    /\ orders'[id].total = orders[id].total
               /\ "userId" \in body.has => orders'[id].user_id = body.userId
               /\ "payment" \in body.has => orders'[id].payment = body.payment
               /\ "productIds" \in body.has => orders'[id].product_ids = body.productIds
          ELSE /\ OnlyRowChanged(reviews, reviews', id)
               /\ users' = users /\ orders' = orders
               /\ reviews'[id].user_id = reviews[id].user_id
               /\ reviews'[id].product_id = reviews[id].product_id
               /\ "score" \notin body.has => reviews'[id].score = reviews[id].score
               /\ "content" \notin body.has => reviews'[id].content = reviews[id].content
               /\ "score" \in body.has => reviews'[id].score = body.score
               /\ "content" \in body.has => reviews'[id].content = body.content]_vars

\* User 2 was renamed without a password in the body while user 1 is
\* stored: the hash of user 2 is still that of the password it was created
\* with.
C28_Witness ==
  /\ resp.op \in {"putUser", "patchUser"} /\ resp.status = 200
  /\ resp.req.body.has = {"username", "email"}
  /\ PgInt4In(resp.req.id) = 2
  /\ 1 \in DOMAIN users
  /\ users[2].username = resp.req.body.username
  /\ users[2].password_hash = hashPassword("secret1")

\* The list names some product more than once.
HasRepeat(productIds) ==
  \E i, j \in 1..Len(productIds) : i # j /\ productIds[i] = productIds[j]

\* C29: a schema-valid order create, or update of a stored order, by a
\* stored user, whose product list names a stored product more than once
\* and only stored products, is accepted, and the total stored counts the
\* price of the product once per occurrence.
C29_RepeatedProductAccepted ==
  /\ (/\ resp.op = "postOrder"
      /\ resp.req.valid
      /\ resp.req.userId \in DOMAIN users
      /\ HasRepeat(resp.req.productIds)
      /\ ~UnknownProduct(resp.req.productIds))
       => /\ resp.status = 201
          /\ orders[resp.body.id].total = ExpectedTotal(resp.req.productIds)
  /\ (/\ resp.op \in {"putOrder", "patchOrder"}
      /\ OrderUpdateSchema(resp.req.body)
      /\ PgInt4Ok(resp.req.id)
      /\ PgInt4In(resp.req.id) \in DOMAIN orders
      /\ "productIds" \in resp.req.body.has
      /\ ("userId" \in resp.req.body.has => resp.req.body.userId \in DOMAIN users)
      /\ HasRepeat(resp.req.body.productIds)
      /\ ~UnknownProduct(resp.req.body.productIds))
       => /\ resp.status = 200
          /\ orders[PgInt4In(resp.req.id)].total = ExpectedTotal(resp.req.body.productIds)

\* The statements of updateProductScore.
ScoreStatements == {"avg", "ids", "update"}

\* C30: when the INSERT of a POST /reviews has succeeded and a statement of
\* the score recomputation that follows is rejected, the request is
\* answered 500, the new review stays stored, and no product's aggregate
\* score or review-id list changes: nothing is rolled back.
C30_NoRollback ==
  [][\A slot \in DOMAIN pending :
       (/\ pending[slot].op = "postReview"
        /\ pending[slot].pc \in ScoreStatements
        /\ slot \notin DOMAIN pending')
       => /\ resp'.op = "postReview"
          /\ resp'.status = 500
          /\ pending[slot].rid \in DOMAIN reviews'
          /\ reviews' = reviews
          /\ products' = products]_vars

\* The first statement of the recomputation was rejected: review 1 is
\* stored and its product still has score 0 and an empty review-id list.
C30_Witness ==
  /\ resp.op = "postReview" /\ resp.status = 500
  /\ "failed" \in DOMAIN resp.req
  /\ resp.req.failed = "avg"
  /\ resp.req.rid \in DOMAIN reviews
  /\ products[resp.req.product_id].total_score = 0
  /\ products[resp.req.product_id].reviews_ids = <<>>

====
